---------------------------- MODULE Spec2Model ----------------------------
(***************************************************************************)
(* A model of the per-realm consensus and data pipeline of the HSM realm:  *)
(*   - the Bigtable-backed log store (src/src/realm/store/bigtable.rs),    *)
(*   - the HSM state machine (src/src/realm/hsm.rs),                       *)
(*   - the coordinator's transfer (src/cluster_core/src/transfer.rs).      *)
(*                                                                         *)
(* Eight specifications share the definitions:                             *)
(*   SpecStore       store clients appending batches of log entries;       *)
(*   Spec            one replication group: capture, leadership, commit;   *)
(*   SpecRestart     Spec with HSMs that restart from NVRAM;               *)
(*   SpecStepDown    Spec with leaders that step down;                     *)
(*   SpecTransfer    two groups exchanging ownership of a prefix;          *)
(*   SpecBattle      two leaders whose agents append at the same index;    *)
(*   SpecFirstIndex  SpecBattle with a second group and with captures;     *)
(*   SpecCoordinator the transfer procedure against arbitrary agents.      *)
(*                                                                         *)
(* Options (Rust Option<T>) are sequences of length 0 or 1.  MACs and      *)
(* hashes are ideal: the MAC of a message is the message itself, so two    *)
(* MACs are equal exactly when what they authenticate is equal, and a      *)
(* statement verifies exactly when it was built from the same fields.      *)
(***************************************************************************)
EXTENDS Integers, Sequences, FiniteSets, TLC

None == <<>>
Some(x) == <<x>>
IsSome(o) == Len(o) = 1
Unwrap(o) == o[1]

(***************************************************************************)
(* Bounds of the model.                                                    *)
(***************************************************************************)
\* highest log index a store client of SpecStore appends at
MaxLogIndex == 3
\* longest batch a store client passes to one append
MaxBatch == 2
\* deferred delete: ticks of the 5 second sleep (bigtable.rs:510)
GraceTicks == 1

(***************************************************************************)
(* Log entries (hsm/types.rs LogEntry).                                    *)
(***************************************************************************)
LogEntry(index, partition, transferring_out, prev_hmac, entry_hmac) ==
    [index |-> index, partition |-> partition,
     transferring_out |-> transferring_out,
     prev_hmac |-> prev_hmac, entry_hmac |-> entry_hmac]

\* LogIndex::FIRST
FIRST == 1

\* LogIndex::next: checked_add(1)
IndexNext(i) == i + 1

\* LogIndex::prev
IndexPrev(i) == i - 1

(***************************************************************************)
(* The log table.  A row is keyed by group || be64(u64::MAX - index) of    *)
(* the first entry of the batch written into it; each entry of the batch   *)
(* is a cell whose column qualifier is be64(u64::MAX - index).  KeyTop     *)
(* stands for u64::MAX: what matters is that the map reverses the order.   *)
(***************************************************************************)
KeyTop == MaxLogIndex + 4

\* DownwardLogIndex::bytes
DownwardLogIndex(index) == KeyTop - index

\* log_key: the group and the downward index of the row
log_key(group, index) == <<group, DownwardLogIndex(index)>>

VARIABLES
    log_rows,       \* the log table: set of [key, cells], cells: qualifier -> entry
    merkle_rows,    \* the Merkle table: the set of node keys present
    remove_tasks,   \* deferred deletes spawned by append: set of [keys, remaining]
    last_write,     \* per store client: Option<(group, index, entry_hmac)>
    client_pc,      \* per store client: where its append call is suspended
    client_req,     \* per store client: the arguments of the append in progress
    client_result   \* per store client: the result of its last append

storeVars == <<log_rows, merkle_rows, remove_tasks, last_write,
               client_pc, client_req, client_result>>

VARIABLES
    persistent,       \* per HSM: PersistentState (realm, groups -> configuration, captured)
    volatile,         \* per HSM: VolatileState (leader: group -> log, committed, incoming)
    nvram,            \* per HSM: the persistent state as last written to NVRAM
    stepping_down,    \* per HSM and group: Option<index the leader steps down at>
    next_nonce,       \* source of TransferNonce::random: the next unused nonce
    issued_entries,   \* every [group, entry] an HSM has returned to its agent
    issued_captures,  \* every CapturedStatement an HSM has returned
    issued_transfers, \* every TransferStatement an HSM has returned
    appointed,        \* per HSM and group: what the HSM had captured when
                      \* BecomeLeader made it leader, until it appends
    adopted           \* destination, partition and nonce of every successful TransferIn

hsmVars == <<persistent, volatile, nvram, stepping_down, next_nonce,
             issued_entries, issued_captures, issued_transfers,
             appointed, adopted>>

VARIABLES
    coordinator,      \* the locals of cluster_core's transfer() and where it stands
    rpcs              \* every RPC transfer() has sent, with the answer it got

coordVars == <<coordinator, rpcs>>

\* no transfer() is running
CoordinatorIdle == coordinator = None /\ rpcs = <<>>

\* the cells of the log table at a log index of a group, over all rows
CellsAt(rows, group, index) ==
    { r.cells[DownwardLogIndex(index)] :
        r \in { x \in rows : /\ x.key[1] = group
                             /\ DownwardLogIndex(index) \in DOMAIN x.cells } }

\* a conditional write that finds no row, whatever the table holds
RowExistsNever(rows, key) == FALSE

RowExists(rows, key) == \E r \in rows : r.key = key

(***************************************************************************)
(* read_log_entry: rows of the group from log_key(index) to                *)
(* log_key(FIRST), filtered to the column of index, limit 1: the first     *)
(* row in key order that holds a cell for index.                           *)
(***************************************************************************)
read_log_entry(rows, group, index) ==
    LET hits == { r \in rows :
                    /\ r.key[1] = group
                    /\ r.key[2] >= DownwardLogIndex(index)
                    /\ r.key[2] <= DownwardLogIndex(FIRST)
                    /\ DownwardLogIndex(index) \in DOMAIN r.cells }
    IN IF hits = {} THEN None
       ELSE LET first == CHOOSE r \in hits : \A o \in hits : r.key[2] <= o.key[2]
            IN Some(first.cells[DownwardLogIndex(index)])

(***************************************************************************)
(* read_last_log_entry: first row of the group in key order, first cell.   *)
(***************************************************************************)
read_last_log_entry(rows, group) ==
    LET hits == { r \in rows : r.key[1] = group /\ r.key[2] <= DownwardLogIndex(FIRST) }
    IN IF hits = {} THEN None
       ELSE LET first == CHOOSE r \in hits : \A o \in hits : r.key[2] <= o.key[2]
                q == CHOOSE q \in DOMAIN first.cells :
                        \A o \in DOMAIN first.cells : q <= o
            IN Some(first.cells[q])


(***************************************************************************)
(* StoreClient::append.  The call suspends at each storage round trip:     *)
(* the read of the previous entry, the Merkle write, the conditional       *)
(* write of the log row.  Other clients' steps interleave there.           *)
(***************************************************************************)
Clients == {"c1", "c2"}

\* Append { entry, delta }
AppendItem(entry, delta) == [entry |-> entry, delta |-> delta]

\* StoreDelta { add, remove }
StoreDelta(add, remove) == [add |-> add, remove |-> remove]

\* lines 417-423: the batch has consecutive indexes and chained hmacs
\* (assert_eq!: the call panics otherwise)
BatchChainOk(items) ==
    \A k \in 2..Len(items) :
        /\ items[k].entry.index = IndexNext(items[k-1].entry.index)
        /\ items[k].entry.prev_hmac = items[k-1].entry.entry_hmac

\* lines 428-444: the Merkle nodes the items add
NewMerkleEntries(items) ==
    UNION { Unwrap(items[k].delta).add :
              k \in { j \in 1..Len(items) : IsSome(items[j].delta) } }

\* lines 499-504: the Merkle nodes the items remove
ToRemove(items) ==
    UNION { Unwrap(items[k].delta).remove :
              k \in { j \in 1..Len(items) : IsSome(items[j].delta) } }

\* lines 470-480: one cell per item, qualified by its downward index
RowCells(items) ==
    [q \in { DownwardLogIndex(items[k].entry.index) : k \in 1..Len(items) } |->
        LET k == CHOOSE j \in 1..Len(items) :
                    DownwardLogIndex(items[j].entry.index) = q
        IN items[k].entry]

\* lines 387-400: does the cached last write stand for the previous entry?
LastWriteCovers(lw, group, prev_index) ==
    /\ IsSome(lw)
    /\ Unwrap(lw).group = group
    /\ Unwrap(lw).index = prev_index

\* a call that goes to the log write without writing the Merkle nodes
AfterPrevCheckSkippingMerkle(items) ==
    IF ~BatchChainOk(items) THEN "panic" ELSE "write_log"

\* where the call goes after the previous entry was accepted
AfterPrevCheck(items) ==
    IF ~BatchChainOk(items) THEN "panic"
    ELSE IF NewMerkleEntries(items) # {} THEN "write_merkle"
    ELSE "write_log"

ClientFinish(c, result) ==
    /\ client_pc' = [client_pc EXCEPT ![c] = "idle"]
    /\ client_req' = [client_req EXCEPT ![c] = None]
    /\ client_result' = [client_result EXCEPT ![c] = result]

ClientGoto(c, pc, req) ==
    IF pc = "panic"
    THEN ClientFinish(c, "panic")
    ELSE /\ client_pc' = [client_pc EXCEPT ![c] = pc]
         /\ client_req' = [client_req EXCEPT ![c] = Some(req)]
         /\ client_result' = [client_result EXCEPT ![c] = "pending"]

\* lines 365-401: the call starts; the cache of the last write is consulted
AppendBegin(c, group, items) ==
    /\ client_pc[c] = "idle"
    /\ Len(items) >= 1
    /\ LET req == [group |-> group, items |-> items]
           first == items[1].entry
       IN IF first.index = FIRST
          THEN ClientGoto(c, AfterPrevCheck(items), req)
          ELSE IF LastWriteCovers(last_write[c], group, IndexPrev(first.index))
          THEN IF Unwrap(last_write[c]).entry_hmac # first.prev_hmac
               THEN ClientFinish(c, "LogPrecondition")
               ELSE ClientGoto(c, AfterPrevCheck(items), req)
          ELSE ClientGoto(c, "read_prev", req)
    /\ UNCHANGED <<log_rows, merkle_rows, remove_tasks, last_write>>
    /\ UNCHANGED hsmVars
    /\ UNCHANGED coordVars

\* lines 402-414: the previous entry is read from the log table
AppendReadPrev(c) ==
    /\ client_pc[c] = "read_prev"
    /\ LET req == Unwrap(client_req[c])
           first == req.items[1].entry
           prev == read_log_entry(log_rows, req.group, IndexPrev(first.index))
       IN IF IsSome(prev) /\ Unwrap(prev).entry_hmac = first.prev_hmac
          THEN ClientGoto(c, AfterPrevCheck(req.items), req)
          ELSE ClientFinish(c, "LogPrecondition")
    /\ UNCHANGED <<log_rows, merkle_rows, remove_tasks, last_write>>
    /\ UNCHANGED hsmVars
    /\ UNCHANGED coordVars

\* lines 446-460: the new Merkle nodes are written
AppendWriteMerkle(c) ==
    /\ client_pc[c] = "write_merkle"
    /\ LET req == Unwrap(client_req[c])
       IN /\ merkle_rows' = merkle_rows \cup NewMerkleEntries(req.items)
          /\ ClientGoto(c, "write_log", req)
    /\ UNCHANGED <<log_rows, remove_tasks, last_write>>
    /\ UNCHANGED hsmVars
    /\ UNCHANGED coordVars

\* lines 462-516: check_and_mutate_row on the key of the first item: the
\* cells are written only if the row holds no cell yet
AppendWriteLog(c) ==
    /\ client_pc[c] = "write_log"
    /\ LET req == Unwrap(client_req[c])
           items == req.items
           key == log_key(req.group, items[1].entry.index)
           last == items[Len(items)].entry
       IN IF RowExists(log_rows, key)
          THEN /\ ClientFinish(c, "LogPrecondition")
               /\ UNCHANGED <<log_rows, remove_tasks, last_write>>
          ELSE /\ log_rows' = log_rows \cup {[key |-> key, cells |-> RowCells(items)]}
               /\ last_write' = [last_write EXCEPT ![c] =
                     Some([group |-> req.group, index |-> last.index,
                           entry_hmac |-> last.entry_hmac])]
               /\ remove_tasks' =
                     IF ToRemove(items) # {}
                     THEN remove_tasks \cup
                             {[keys |-> ToRemove(items), remaining |-> GraceTicks]}
                     ELSE remove_tasks
               /\ ClientFinish(c, "Ok")
    /\ UNCHANGED merkle_rows
    /\ UNCHANGED hsmVars
    /\ UNCHANGED coordVars

\* line 510: time passes for the sleeping delete tasks
Tick ==
    /\ \E t \in remove_tasks : t.remaining > 0
    /\ remove_tasks' = { [t EXCEPT !.remaining = IF @ > 0 THEN @ - 1 ELSE 0] :
                           t \in remove_tasks }
    /\ UNCHANGED <<log_rows, merkle_rows, last_write,
                   client_pc, client_req, client_result>>
    /\ UNCHANGED hsmVars
    /\ UNCHANGED coordVars

\* a delete task that does not sleep
ElapsedAtOnce(t) == TRUE

\* line 510: the sleep of the delete task is over
Elapsed(t) == t.remaining = 0

\* lines 509-512, 520-545: a delete task wakes up and removes its rows
StoreRemove(t) ==
    /\ t \in remove_tasks
    /\ Elapsed(t)
    /\ merkle_rows' = merkle_rows \ t.keys
    /\ remove_tasks' = remove_tasks \ {t}
    /\ UNCHANGED <<log_rows, last_write, client_pc, client_req, client_result>>
    /\ UNCHANGED hsmVars
    /\ UNCHANGED coordVars

(***************************************************************************)
(* The HSM (src/src/realm/hsm.rs).  Identifiers that the code draws at     *)
(* random (HsmId, GroupId, RealmId) are fixed names here.                  *)
(***************************************************************************)
HsmIds == {1, 2, 3}

Groups == {"gA", "gB"}

RealmId == "realm"

\* highest log index an HSM creates an entry at
MaxHsmIndex == 3

\* number of nonces TransferNonce::random hands out
MaxNonce == 2

\* Configuration::is_ok: non-empty, sorted, unique
ConfigurationIsOk(configuration) ==
    /\ Len(configuration) > 0
    /\ \A k \in 1..(Len(configuration) - 1) : configuration[k] < configuration[k + 1]

\* Configuration.0.contains
ConfigurationContains(configuration, hsm) ==
    \E k \in 1..Len(configuration) : configuration[k] = hsm

\* EntryHmac::zero
EntryHmacZero == <<>>

\* EntryHmacBuilder::build: the MAC over the fields of an entry
EntryHmacBuild(realm, group, index, partition, transferring_out, prev_hmac) ==
    <<"entry", realm, group, index, partition, transferring_out, prev_hmac>>

\* an entry is taken for genuine without its MAC being computed
verify_entry_skipped(realm, group, entry) == TRUE

\* EntryHmacBuilder::verify_entry
verify_entry(realm, group, entry) ==
    entry.entry_hmac = EntryHmacBuild(realm, group, entry.index, entry.partition,
                                      entry.transferring_out, entry.prev_hmac)

\* GroupConfigurationStatementBuilder::build
GroupConfigurationStatementBuild(realm, group, configuration) ==
    <<"group configuration", realm, group, configuration>>

\* CapturedStatementBuilder::build
CapturedStatementBuild(hsm, realm, group, index, entry_hmac) ==
    <<"captured", hsm, realm, group, index, entry_hmac>>

\* TransferStatementBuilder::build
TransferStatementBuild(realm, partition, destination, nonce) ==
    <<"transfer", realm, partition, destination, nonce>>

\* Partition { prefix, hash }
Partition(prefix, hash) == [prefix |-> prefix, hash |-> hash]

\* TransferringOut { destination, partition, at }
TransferringOut(destination, partition, at) ==
    [destination |-> destination, partition |-> partition, at |-> at]

\* RecordMap::new: a record map is a set of <<rid, record>>
RecordMapNew == {}

\* RecordMap::hash: a collision-free digest of the records in order
RecordMapHash(data) == <<"sha256", data>>

\* BTreeMap::get
RecordMapGet(data, rid) ==
    IF \E p \in data : p[1] = rid
    THEN Some((CHOOSE p \in data : p[1] = rid)[2])
    ELSE None

\* BTreeMap::insert
RecordMapInsert(data, rid, record) ==
    { p \in data : p[1] # rid } \cup { <<rid, record>> }

\* BTreeMap::remove
RecordMapRemove(data, rid) == { p \in data : p[1] # rid }

\* RecordChange::Update(record) | RecordChange::Delete applied to a map
ApplyChange(data, rid, change) ==
    IF change[1] = "Update" THEN RecordMapInsert(data, rid, change[2])
    ELSE RecordMapRemove(data, rid)

\* Vec::starts_with on bit vectors
StartsWith(bits, prefix) ==
    /\ Len(prefix) <= Len(bits)
    /\ \A k \in 1..Len(prefix) : bits[k] = prefix[k]

\* the order of bit vectors (Vec<bool>): lexicographic, a proper prefix first
RECURSIVE BitsLess(_, _)
BitsLess(a, b) ==
    IF a = <<>> \/ b = <<>> THEN a = <<>> /\ b # <<>>
    ELSE IF a[1] # b[1] THEN a[1] < b[1]
    ELSE BitsLess(Tail(a), Tail(b))

\* a split_off that moves every record
RecordMapSplitOffAll(data, key) == data

\* BTreeMap::split_off(&key): the records with rid >= key
RecordMapSplitOff(data, key) == { p \in data : ~BitsLess(p[1], key) }

\* record ids of the model: bit vectors of length two
RecordIds == { <<0, 0>>, <<0, 1>>, <<1, 0>>, <<1, 1>> }

\* OwnedPrefix::full
OwnedPrefixFull == <<>>

\* OwnedPrefix::contains: the record id starts with the prefix
OwnedPrefixContains(prefix, rid) == StartsWith(rid, prefix)

\* app::process: the response to the client and the change to the record
AppRequests == {"Register", "Recover", "Delete"}

AppProcess(request, record) ==
    CASE request = "Register" ->
            [response |-> "Ok", change |-> Some(<<"Update", "secret">>)]
      [] request = "Recover" ->
            [response |-> IF IsSome(record) THEN "Ok" ELSE "NotRegistered",
             change |-> None]
      [] OTHER ->
            [response |-> "Ok", change |-> Some(<<"Delete">>)]

\* PersistentGroupState { configuration, captured }
PersistentGroupState(configuration, captured) ==
    [configuration |-> configuration, captured |-> captured]

\* LeaderLogEntry { entry, delta, response }
LeaderLogEntry(entry, delta, response) ==
    [entry |-> entry, delta |-> delta, response |-> response]

\* LeaderVolatileGroupState { log, committed, incoming }
LeaderVolatileGroupState(log, committed, incoming) ==
    [log |-> log, committed |-> committed, incoming |-> incoming]

\* Hsm::new: no realm, leader of nothing
HsmNewPersistent == [realm |-> None, groups |-> [g \in Groups |-> None]]

HsmNewVolatile == [leader |-> [g \in Groups |-> None]]

\* the result of a handler: the response and the HSM's state after it
Handled(response, p, v) == [response |-> response, p |-> p, v |-> v]

\* Vec::last of the leader's log
LastEntry(leader) == leader.log[Len(leader.log)].entry

(***************************************************************************)
(* The handlers.  Each is a function of the HSM's state (p: persistent,    *)
(* v: volatile) and the request to the response and the state after it.    *)
(***************************************************************************)
\* the realm check every handler starts with
RealmIs(p, realm) == IsSome(p.realm) /\ Unwrap(p.realm) = realm

\* a first entry that is given the index before the one asked for
GenesisEntryBefore(realm, group, index, partition) ==
    LET entry_hmac == EntryHmacBuild(realm, group, index - 1, partition, None,
                                     EntryHmacZero)
    IN LogEntry(index - 1, partition, None, EntryHmacZero, entry_hmac)

\* lines 402-421: the first entry of a group: nothing transferring out, the
\* zero MAC as prev_hmac
GenesisEntry(realm, group, index, partition) ==
    LET transferring_out == None
        prev_hmac == EntryHmacZero
        entry_hmac == EntryHmacBuild(realm, group, index, partition,
                                     transferring_out, prev_hmac)
    IN LogEntry(index, partition, transferring_out, prev_hmac, entry_hmac)

\* Hsm::create_new_group; group stands for GroupId::random()
create_new_group(p, v, realm, configuration, owned_prefix, group) ==
    LET statement == GroupConfigurationStatementBuild(realm, group, configuration)
        index == FIRST
        data == IF IsSome(owned_prefix) THEN Some(RecordMapNew) ELSE None
        partition == IF IsSome(owned_prefix)
                     THEN Some(Partition(Unwrap(owned_prefix),
                                         RecordMapHash(RecordMapNew)))
                     ELSE None
        entry == GenesisEntry(realm, group, index, partition)
    IN Handled([result |-> "Ok", realm |-> realm, group |-> group,
                statement |-> statement, entry |-> entry,
                partition |-> partition, data |-> data],
               [p EXCEPT !.groups[group] =
                    Some(PersistentGroupState(configuration, None))],
               [v EXCEPT !.leader[group] =
                    Some(LeaderVolatileGroupState(
                           <<LeaderLogEntry(entry, None, None)>>, None, None))])

\* Handler<NewRealmRequest>; realm stands for RealmId::random()
NewRealmHandle(p, v, hsm, configuration, realm, group) ==
    IF IsSome(p.realm)
    THEN Handled([result |-> "HaveRealm"], p, v)
    ELSE IF ~ConfigurationIsOk(configuration)
            \/ ~ConfigurationContains(configuration, hsm)
    THEN Handled([result |-> "InvalidConfiguration"], p, v)
    ELSE create_new_group([p EXCEPT !.realm = Some(realm)], v, realm,
                          configuration, Some(OwnedPrefixFull), group)

\* Handler<JoinRealmRequest>
JoinRealmHandle(p, v, hsm, realm) ==
    IF IsSome(p.realm)
    THEN IF Unwrap(p.realm) = realm
         THEN Handled([result |-> "Ok", hsm |-> hsm], p, v)
         ELSE Handled([result |-> "HaveOtherRealm"], p, v)
    ELSE Handled([result |-> "Ok", hsm |-> hsm], [p EXCEPT !.realm = Some(realm)], v)

\* Handler<NewGroupRequest>
NewGroupHandle(p, v, hsm, realm, configuration, group) ==
    IF ~RealmIs(p, realm)
    THEN Handled([result |-> "InvalidRealm"], p, v)
    ELSE IF ~ConfigurationIsOk(configuration)
            \/ ~ConfigurationContains(configuration, hsm)
    THEN Handled([result |-> "InvalidConfiguration"], p, v)
    ELSE create_new_group(p, v, realm, configuration, None, group)

\* HashMap::insert(group, state): an existing state is replaced
GroupsInsert(groups, group, state) == [groups EXCEPT ![group] = Some(state)]

\* HashMap::entry(group).or_insert(state): an existing state is kept
GroupsOrInsert(groups, group, state) ==
    IF IsSome(groups[group]) THEN groups
    ELSE [groups EXCEPT ![group] = Some(state)]

\* Handler<JoinGroupRequest>
JoinGroupHandle(p, v, hsm, realm, group, configuration, statement) ==
    IF ~RealmIs(p, realm)
    THEN Handled([result |-> "InvalidRealm"], p, v)
    ELSE IF statement # GroupConfigurationStatementBuild(realm, group, configuration)
    THEN Handled([result |-> "InvalidStatement"], p, v)
    ELSE IF ~ConfigurationIsOk(configuration)
            \/ ~ConfigurationContains(configuration, hsm)
    THEN Handled([result |-> "InvalidConfiguration"], p, v)
    ELSE Handled([result |-> "Ok"],
                 [p EXCEPT !.groups =
                     GroupsOrInsert(@, group,
                                    PersistentGroupState(configuration, None))],
                 v)
\* a check of the chain that does not look at the index
CaptureCheckNoGap(captured, entry) ==
    IF ~IsSome(captured)
    THEN IF entry.prev_hmac # EntryHmacZero THEN "InvalidChain" ELSE "Ok"
    ELSE IF entry.prev_hmac # Unwrap(captured).entry_hmac THEN "InvalidChain"
         ELSE "Ok"

\* lines 654-671: where the entry must continue from
CaptureCheck(captured, entry) ==
    IF ~IsSome(captured)
    THEN IF entry.index # FIRST THEN "MissingPrev"
         ELSE IF entry.prev_hmac # EntryHmacZero THEN "InvalidChain"
         ELSE "Ok"
    ELSE IF entry.index # IndexNext(Unwrap(captured).index) THEN "MissingPrev"
         ELSE IF entry.prev_hmac # Unwrap(captured).entry_hmac THEN "InvalidChain"
         ELSE "Ok"

\* the capture is answered without being recorded
SetCapturedNowhere(group_state, entry) == group_state

\* line 681: group.captured = Some((index, entry_hmac))
SetCaptured(group_state, entry) ==
    [group_state EXCEPT !.captured =
        Some([index |-> entry.index, entry_hmac |-> entry.entry_hmac])]

\* Handler<CaptureNextRequest>
CaptureNextHandle(p, v, hsm, realm, group, entry) ==
    IF ~RealmIs(p, realm)
    THEN Handled([result |-> "InvalidRealm"], p, v)
    ELSE IF ~verify_entry(realm, group, entry)
    THEN Handled([result |-> "InvalidHmac"], p, v)
    ELSE IF ~IsSome(p.groups[group])
    THEN Handled([result |-> "InvalidGroup"], p, v)
    ELSE LET state == Unwrap(p.groups[group])
             check == CaptureCheck(state.captured, entry)
         IN IF check # "Ok"
            THEN Handled([result |-> check], p, v)
            ELSE Handled([result |-> "Ok", hsm_id |-> hsm,
                          captured |-> CapturedStatementBuild(hsm, realm, group,
                                          entry.index, entry.entry_hmac)],
                         [p EXCEPT !.groups[group] = Some(SetCaptured(state, entry))],
                         v)

\* lines 718-719: the entry named is the one captured
CapturedIs(captured, last_entry) ==
    /\ last_entry.index = captured.index
    /\ last_entry.entry_hmac = captured.entry_hmac

\* a log that starts from the entry named with its MAC forgotten
LeaderOrInsertUnchained(leader, group, last_entry) ==
    IF IsSome(leader[group]) THEN leader
    ELSE [leader EXCEPT ![group] =
            Some(LeaderVolatileGroupState(
                   <<LeaderLogEntry([last_entry EXCEPT !.entry_hmac = EntryHmacZero],
                                    None, None)>>, None, None))]

\* a log that starts from the entry named, taken as committed
LeaderOrInsertCommitted(leader, group, last_entry) ==
    IF IsSome(leader[group]) THEN leader
    ELSE [leader EXCEPT ![group] =
            Some(LeaderVolatileGroupState(
                   <<LeaderLogEntry(last_entry, None, None)>>,
                   Some(last_entry.index), None))]

\* lines 744-752: or_insert_with: the log of an HSM that starts to lead
LeaderOrInsert(leader, group, last_entry) ==
    IF IsSome(leader[group]) THEN leader
    ELSE [leader EXCEPT ![group] =
            Some(LeaderVolatileGroupState(
                   <<LeaderLogEntry(last_entry, None, None)>>, None, None))]

\* Handler<BecomeLeaderRequest>
BecomeLeaderHandle(p, v, hsm, realm, group, last_entry) ==
    IF ~RealmIs(p, realm)
    THEN Handled([result |-> "InvalidRealm"], p, v)
    ELSE IF ~IsSome(p.groups[group])
    THEN Handled([result |-> "InvalidGroup"], p, v)
    ELSE LET captured == Unwrap(p.groups[group]).captured
         IN IF ~IsSome(captured)
            THEN Handled([result |-> "NotCaptured", have |-> None], p, v)
            ELSE IF ~CapturedIs(Unwrap(captured), last_entry)
            THEN Handled([result |-> "NotCaptured",
                          have |-> Some(Unwrap(captured).index)], p, v)
            ELSE IF ~verify_entry(realm, group, last_entry)
            THEN Handled([result |-> "InvalidHmac"], p, v)
            ELSE Handled([result |-> "Ok"], p,
                         [v EXCEPT !.leader = LeaderOrInsert(@, group, last_entry)])

\* lines 831-856: the HSMs counted towards the quorum; captures is the
\* request's Vec of <<hsm_id, statement>>
CommitCaptures(state, hsm, realm, group, index, entry_hmac, captures) ==
    { captures[k][1] :
        k \in { j \in 1..Len(captures) :
                  /\ ConfigurationContains(state.configuration, captures[j][1])
                  /\ captures[j][2] = CapturedStatementBuild(captures[j][1], realm,
                                          group, index, entry_hmac) } }
    \cup
    ( IF /\ IsSome(state.captured)
         /\ Unwrap(state.captured).index = index
         /\ Unwrap(state.captured).entry_hmac = entry_hmac
      THEN {hsm} ELSE {} )

\* a quorum that half of the configuration reaches
HasQuorumOfHalf(captures, configuration) == captures >= Len(configuration) \div 2

\* line 858: captures > configuration.len() / 2
HasQuorum(captures, configuration) == captures > Len(configuration) \div 2

\* a commit that releases the response of the entry at index alone
ReleasableOnlyAt(log_entry, index) == log_entry.entry.index = index

\* a release that does not look at the index
ReleasableAny(log_entry, index) == TRUE

\* line 864: the entries whose responses a commit at index releases
Releasable(log_entry, index) == log_entry.entry.index <= index

\* lines 861-871: the responses taken out of the log, in log order
TakenResponses(log, index) ==
    LET taken == SelectSeq(log, LAMBDA e : Releasable(e, index) /\ IsSome(e.response))
    IN [k \in 1..Len(taken) |-> <<taken[k].entry.entry_hmac, Unwrap(taken[k].response)>>]

\* Option::take on the entries up to index
LogAfterTake(log, index) ==
    [k \in 1..Len(log) |->
        IF Releasable(log[k], index) THEN [log[k] EXCEPT !.response = None]
        ELSE log[k]]

\* a leader that takes only a higher commit index for committed
AlreadyCommittedBeyond(leader, index) ==
    IsSome(leader.committed) /\ Unwrap(leader.committed) > index

\* lines 825-829: committed >= request.index
AlreadyCommitted(leader, index) ==
    IsSome(leader.committed) /\ Unwrap(leader.committed) >= index

\* Handler<CommitRequest>
CommitHandle(p, v, hsm, realm, group, index, entry_hmac, captures) ==
    IF ~RealmIs(p, realm)
    THEN Handled([result |-> "InvalidRealm"], p, v)
    ELSE IF ~IsSome(p.groups[group])
    THEN Handled([result |-> "InvalidGroup"], p, v)
    ELSE IF ~IsSome(v.leader[group])
    THEN Handled([result |-> "NotLeader"], p, v)
    ELSE LET state == Unwrap(p.groups[group])
             leader == Unwrap(v.leader[group])
             count == Cardinality(CommitCaptures(state, hsm, realm, group, index,
                                                 entry_hmac, captures))
         IN IF AlreadyCommitted(leader, index)
            THEN Handled([result |-> "AlreadyCommitted",
                          committed |-> Unwrap(leader.committed)], p, v)
            ELSE IF HasQuorum(count, state.configuration)
            THEN Handled([result |-> "Ok", committed |-> Some(index),
                          responses |-> TakenResponses(leader.log, index)],
                         p,
                         [v EXCEPT !.leader[group] =
                            Some([leader EXCEPT
                                    !.log = LogAfterTake(leader.log, index),
                                    !.committed = Some(index)])])
            ELSE Handled([result |-> "NoQuorum"], p, v)

\* Vec::push of an entry that carries neither delta nor response
PushEntry(v, group, leader, entry) ==
    [v EXCEPT !.leader[group] =
        Some([leader EXCEPT !.log = Append(@, LeaderLogEntry(entry, None, None))])]

\* a source that hands over its partition and keeps it as well
SplitKeepingOwned(owned_partition, prefix, data) ==
    Some([keeping_partition |-> Some(owned_partition), keeping_data |-> Some(data),
          transferring_partition |-> owned_partition,
          transferring_data |-> data])

\* lines 943-986: what the source keeps and what it hands over;
\* None when the prefix asked for is not one the source can give
SplitForTransfer(owned_partition, prefix, data) ==
    IF prefix = owned_partition.prefix
    THEN Some([keeping_partition |-> None, keeping_data |-> None,
               transferring_partition |-> owned_partition,
               transferring_data |-> data])
    ELSE IF /\ Len(prefix) = Len(owned_partition.prefix) + 1
            /\ StartsWith(prefix, owned_partition.prefix)
    THEN LET transferring_1 == prefix[Len(prefix)] = 1
             stem == SubSeq(prefix, 1, Len(prefix) - 1)
             keeping_0 == transferring_1
             keeping_prefix == IF transferring_1 THEN Append(stem, 0)
                               ELSE Append(stem, 1)
             prefix1 == IF transferring_1 THEN prefix ELSE keeping_prefix
             data1 == RecordMapSplitOff(data, prefix1)
             data0 == data \ data1
             keeping_data == IF keeping_0 THEN data0 ELSE data1
             transferring_data == IF keeping_0 THEN data1 ELSE data0
         IN Some([keeping_partition |->
                     Some(Partition(keeping_prefix, RecordMapHash(keeping_data))),
                  keeping_data |-> Some(keeping_data),
                  transferring_partition |->
                     Partition(prefix, RecordMapHash(transferring_data)),
                  transferring_data |-> transferring_data])
    ELSE None

\* Handler<TransferOutRequest>
TransferOutHandle(p, v, hsm, realm, source, destination, prefix, index, data) ==
    IF ~RealmIs(p, realm)
    THEN Handled([result |-> "InvalidRealm"], p, v)
    ELSE IF ~IsSome(p.groups[source])
    THEN Handled([result |-> "InvalidGroup"], p, v)
    ELSE IF ~IsSome(v.leader[source])
    THEN Handled([result |-> "NotLeader"], p, v)
    ELSE LET leader == Unwrap(v.leader[source])
             last_entry == LastEntry(leader)
         IN IF ~IsSome(last_entry.partition)
            THEN Handled([result |-> "NotOwner"], p, v)
            ELSE IF index # last_entry.index
            THEN Handled([result |-> "StaleIndex"], p, v)
            ELSE IF RecordMapHash(data) # Unwrap(last_entry.partition).hash
            THEN Handled([result |-> "InvalidData"], p, v)
            ELSE LET split == SplitForTransfer(Unwrap(last_entry.partition),
                                               prefix, data)
                 IN IF ~IsSome(split)
                    THEN Handled([result |-> "NotOwner"], p, v)
                    ELSE LET s == Unwrap(split)
                             next == IndexNext(last_entry.index)
                             transferring_out ==
                                Some(TransferringOut(destination,
                                        s.transferring_partition, next))
                             prev_hmac == last_entry.entry_hmac
                             entry == LogEntry(next, s.keeping_partition,
                                        transferring_out, prev_hmac,
                                        EntryHmacBuild(realm, source, next,
                                            s.keeping_partition, transferring_out,
                                            prev_hmac))
                         IN Handled([result |-> "Ok", entry |-> entry,
                                     keeping |-> s.keeping_data,
                                     transferring |-> s.transferring_data],
                                    p, PushEntry(v, source, leader, entry))

\* Handler<TransferNonceRequest>; nonce stands for TransferNonce::random()
TransferNonceHandle(p, v, hsm, realm, destination, nonce) ==
    IF ~RealmIs(p, realm)
    THEN Handled([result |-> "InvalidRealm"], p, v)
    ELSE IF ~IsSome(p.groups[destination])
    THEN Handled([result |-> "InvalidGroup"], p, v)
    ELSE IF ~IsSome(v.leader[destination])
    THEN Handled([result |-> "NotLeader"], p, v)
    ELSE Handled([result |-> "Ok", nonce |-> nonce], p,
                 [v EXCEPT !.leader[destination] =
                    Some([Unwrap(v.leader[destination]) EXCEPT
                            !.incoming = Some(nonce)])])

\* a source that takes any commit index for enough
TransferCommittedAtAny(leader, t) == IsSome(leader.committed)

\* line 1100: matches!(leader.committed, Some(c) if c >= *transferring_at)
TransferCommitted(leader, t) ==
    IsSome(leader.committed) /\ Unwrap(leader.committed) >= t.at

\* Handler<TransferStatementRequest>
TransferStatementHandle(p, v, hsm, realm, source, destination, nonce) ==
    IF ~RealmIs(p, realm)
    THEN Handled([result |-> "InvalidRealm"], p, v)
    ELSE IF ~IsSome(p.groups[source])
    THEN Handled([result |-> "InvalidGroup"], p, v)
    ELSE IF ~IsSome(v.leader[source])
    THEN Handled([result |-> "NotLeader"], p, v)
    ELSE LET leader == Unwrap(v.leader[source])
             t == LastEntry(leader).transferring_out
         IN IF ~IsSome(t)
            THEN Handled([result |-> "NotTransferring"], p, v)
            ELSE IF Unwrap(t).destination # destination
            THEN Handled([result |-> "NotTransferring"], p, v)
            ELSE IF ~TransferCommitted(leader, Unwrap(t))
            THEN Handled([result |-> "Busy"], p, v)
            ELSE Handled([result |-> "Ok",
                          statement |-> TransferStatementBuild(realm,
                                            Unwrap(t).partition, destination, nonce)],
                         p, v)

\* a leader that keeps the nonce it has been presented with
IncomingKept(leader) == leader

\* line 1147: leader.incoming = None
IncomingTaken(leader) == [leader EXCEPT !.incoming = None]

\* Handler<TransferInRequest>: the nonce is cleared before the other checks
TransferInHandle(p, v, hsm, realm, destination, partition, nonce, statement, data) ==
    IF ~RealmIs(p, realm)
    THEN Handled([result |-> "InvalidRealm"], p, v)
    ELSE IF ~IsSome(p.groups[destination])
    THEN Handled([result |-> "InvalidGroup"], p, v)
    ELSE IF ~IsSome(v.leader[destination])
    THEN Handled([result |-> "NotLeader"], p, v)
    ELSE IF Unwrap(v.leader[destination]).incoming # Some(nonce)
    THEN Handled([result |-> "InvalidNonce"], p, v)
    ELSE LET leader == IncomingTaken(Unwrap(v.leader[destination]))
             cleared == [v EXCEPT !.leader[destination] = Some(leader)]
             last_entry == LastEntry(leader)
         IN IF IsSome(last_entry.partition)
            THEN Handled([result |-> "UnacceptablePrefix"], p, cleared)
            ELSE IF statement # TransferStatementBuild(realm, partition,
                                                       destination, nonce)
            THEN Handled([result |-> "InvalidStatement"], p, cleared)
            ELSE IF RecordMapHash(data) # partition.hash
            THEN Handled([result |-> "InvalidData"], p, cleared)
            ELSE LET index == IndexNext(last_entry.index)
                     transferring_out == last_entry.transferring_out
                     prev_hmac == last_entry.entry_hmac
                     entry == LogEntry(index, Some(partition), transferring_out,
                                 prev_hmac,
                                 EntryHmacBuild(realm, destination, index,
                                     Some(partition), transferring_out, prev_hmac))
                 IN Handled([result |-> "Ok", entry |-> entry, data |-> data],
                            p, PushEntry(cleared, destination, leader, entry))

\* a check that lets a tail with nothing in transfer through
NotTransferringElsewhere(last_entry, destination, prefix) ==
    /\ IsSome(last_entry.transferring_out)
    /\ \/ Unwrap(last_entry.transferring_out).destination # destination
       \/ Unwrap(last_entry.transferring_out).partition.prefix # prefix

\* lines 1237-1246: the tail of the log is not transferring out this prefix
\* to this destination
NotTransferring(last_entry, destination, prefix) ==
    \/ ~IsSome(last_entry.transferring_out)
    \/ Unwrap(last_entry.transferring_out).destination # destination
    \/ Unwrap(last_entry.transferring_out).partition.prefix # prefix

\* Handler<CompleteTransferRequest>
CompleteTransferHandle(p, v, hsm, realm, source, destination, prefix) ==
    IF ~RealmIs(p, realm)
    THEN Handled([result |-> "InvalidRealm"], p, v)
    ELSE IF ~IsSome(p.groups[source])
    THEN Handled([result |-> "InvalidGroup"], p, v)
    ELSE IF ~IsSome(v.leader[source])
    THEN Handled([result |-> "NotLeader"], p, v)
    ELSE LET leader == Unwrap(v.leader[source])
             last_entry == LastEntry(leader)
         IN IF NotTransferring(last_entry, destination, prefix)
            THEN Handled([result |-> "NotTransferring"], p, v)
            ELSE LET index == IndexNext(last_entry.index)
                     owned_partition == last_entry.partition
                     transferring_out == None
                     prev_hmac == last_entry.entry_hmac
                     entry == LogEntry(index, owned_partition, transferring_out,
                                 prev_hmac,
                                 EntryHmacBuild(realm, source, index,
                                     owned_partition, transferring_out, prev_hmac))
                 IN Handled([result |-> "Ok", entry |-> entry],
                            p, PushEntry(v, source, leader, entry))

\* lines 1352-1372: the deltas of the entries after the one the request
\* read are applied to its data, in log order
RECURSIVE ApplyDeltas(_, _, _)
ApplyDeltas(data, log, from) ==
    IF from > Len(log) THEN data
    ELSE IF IsSome(log[from].delta)
    THEN ApplyDeltas(ApplyChange(data, Unwrap(log[from].delta)[1],
                                 Unwrap(log[from].delta)[2]), log, from + 1)
    ELSE ApplyDeltas(data, log, from + 1)

\* a leader that lets every request through
DeltaTouchesNever(log, from, rid) == FALSE

\* line 1358: an entry after the one read changes the record asked for
DeltaTouches(log, from, rid) ==
    \E k \in from..Len(log) :
        IsSome(log[k].delta) /\ Unwrap(log[k].delta)[1] = rid

\* an app entry that takes the whole key space for its group
AppPartitionFull(last_entry, new_data) ==
    Some(Partition(OwnedPrefixFull, RecordMapHash(new_data)))

\* lines 1392-1398: the partition of an app entry: the prefix of the tail
\* with the hash of the new data
AppPartition(last_entry, new_data) ==
    Some(Partition(Unwrap(last_entry.partition).prefix, RecordMapHash(new_data)))

\* handle_app_request
handle_app_request(p, v, realm, group, rid, request, index, data) ==
    LET leader == Unwrap(v.leader[group])
        start_index == leader.log[1].entry.index
        offset == index - start_index
    IN IF offset < 0 \/ offset >= Len(leader.log)
       THEN Handled([result |-> "StaleIndex"], p, v)
       ELSE LET request_entry == leader.log[offset + 1]
            IN IF ~IsSome(request_entry.entry.partition)
               THEN Handled([result |-> "NotLeader"], p, v)
               ELSE IF Unwrap(request_entry.entry.partition).hash # RecordMapHash(data)
               THEN Handled([result |-> "InvalidData"], p, v)
               ELSE IF DeltaTouches(leader.log, offset + 2, rid)
               THEN Handled([result |-> "Busy"], p, v)
               ELSE LET current == ApplyDeltas(data, leader.log, offset + 2)
                        last_entry == LastEntry(leader)
                        processed == AppProcess(request, RecordMapGet(current, rid))
                        change == processed.change
                        new_data == IF IsSome(change)
                                    THEN ApplyChange(current, rid, Unwrap(change))
                                    ELSE current
                        delta == IF IsSome(change)
                                 THEN Some(<<rid, Unwrap(change)>>) ELSE None
                        new_index == IndexNext(last_entry.index)
                        partition == AppPartition(last_entry, new_data)
                        transferring_out == last_entry.transferring_out
                        prev_hmac == last_entry.entry_hmac
                        new_entry == LogEntry(new_index, partition, transferring_out,
                                        prev_hmac,
                                        EntryHmacBuild(realm, group, new_index,
                                            partition, transferring_out, prev_hmac))
                    IN Handled([result |-> "Ok", entry |-> new_entry,
                                data |-> new_data],
                               p,
                               [v EXCEPT !.leader[group] =
                                  Some([leader EXCEPT !.log =
                                     Append(@, LeaderLogEntry(new_entry, delta,
                                               Some(processed.response)))])])

\* Handler<AppRequest>
AppRequestHandle(p, v, hsm, realm, group, rid, request, index, data) ==
    IF ~RealmIs(p, realm)
    THEN Handled([result |-> "InvalidRealm"], p, v)
    ELSE IF ~IsSome(p.groups[group])
    THEN Handled([result |-> "InvalidGroup"], p, v)
    ELSE IF ~IsSome(v.leader[group])
    THEN Handled([result |-> "NotLeader"], p, v)
    ELSE LET partition == LastEntry(Unwrap(v.leader[group])).partition
         IN IF IsSome(partition) /\ OwnedPrefixContains(Unwrap(partition).prefix, rid)
            THEN handle_app_request(p, v, realm, group, rid, request, index, data)
            ELSE Handled([result |-> "NotOwner"], p, v)

(***************************************************************************)
(* What the code at hand does not hold and the specification describes:    *)
(* the write of the persistent state to NVRAM before a response leaves     *)
(* the HSM, the restart from NVRAM, and the stepdown of a leader.          *)
(***************************************************************************)
\* the persistent state is written to NVRAM before the response is returned
Persist(hsm, p) == nvram' = [nvram EXCEPT ![hsm] = p]

\* a stepdown is in progress for the group
SteppingDown(hsm, group) == IsSome(stepping_down[hsm][group])

\* a leader slot released one index early
StepdownReachedEarly(hsm, group, v) ==
    /\ SteppingDown(hsm, group)
    /\ IsSome(v.leader[group])
    /\ IsSome(Unwrap(v.leader[group]).committed)
    /\ Unwrap(Unwrap(v.leader[group]).committed) + 1
          >= Unwrap(stepping_down[hsm][group])

\* the leader slot is released once the stepdown index is committed
StepdownReached(hsm, group, v) ==
    /\ SteppingDown(hsm, group)
    /\ IsSome(v.leader[group])
    /\ IsSome(Unwrap(v.leader[group]).committed)
    /\ Unwrap(Unwrap(v.leader[group]).committed) >= Unwrap(stepping_down[hsm][group])

ReleaseLeader(v, group) == [v EXCEPT !.leader[group] = None]

\* a leader that steps down appends no entry: it answers as a non-leader
WhileLeading(hsm, group, handled) ==
    IF SteppingDown(hsm, group)
    THEN Handled([result |-> "NotLeader"], persistent[hsm], volatile[hsm])
    ELSE handled

(***************************************************************************)
(* The requests as the HSM of an agent answers them.                       *)
(***************************************************************************)
JoinGroupRequest(hsm, group, configuration, statement) ==
    JoinGroupHandle(persistent[hsm], volatile[hsm], hsm, RealmId, group,
                    configuration, statement)

NewGroupRequest(hsm, configuration, group) ==
    NewGroupHandle(persistent[hsm], volatile[hsm], hsm, RealmId,
                   configuration, group)

CaptureNextRequest(hsm, group, entry) ==
    CaptureNextHandle(persistent[hsm], volatile[hsm], hsm, RealmId, group, entry)

BecomeLeaderRequest(hsm, group, last_entry) ==
    IF SteppingDown(hsm, group)
    THEN Handled([result |-> "StepdownInProgress"], persistent[hsm], volatile[hsm])
    ELSE BecomeLeaderHandle(persistent[hsm], volatile[hsm], hsm, RealmId,
                            group, last_entry)

CommitRequest(hsm, group, index, entry_hmac, captures) ==
    CommitHandle(persistent[hsm], volatile[hsm], hsm, RealmId, group,
                 index, entry_hmac, captures)

AppRequest(hsm, group, rid, request, index, data) ==
    WhileLeading(hsm, group,
        AppRequestHandle(persistent[hsm], volatile[hsm], hsm, RealmId, group,
                         rid, request, index, data))

TransferOutRequest(hsm, source, destination, prefix, index, data) ==
    WhileLeading(hsm, source,
        TransferOutHandle(persistent[hsm], volatile[hsm], hsm, RealmId, source,
                          destination, prefix, index, data))

TransferNonceRequest(hsm, destination, nonce) ==
    TransferNonceHandle(persistent[hsm], volatile[hsm], hsm, RealmId,
                        destination, nonce)

TransferStatementRequest(hsm, source, destination, nonce) ==
    TransferStatementHandle(persistent[hsm], volatile[hsm], hsm, RealmId,
                            source, destination, nonce)

TransferInRequest(hsm, destination, partition, nonce, statement, data) ==
    WhileLeading(hsm, destination,
        TransferInHandle(persistent[hsm], volatile[hsm], hsm, RealmId,
                         destination, partition, nonce, statement, data))

CompleteTransferRequest(hsm, source, destination, prefix) ==
    WhileLeading(hsm, source,
        CompleteTransferHandle(persistent[hsm], volatile[hsm], hsm, RealmId,
                               source, destination, prefix))

(***************************************************************************)
(* The steps: an agent sends its HSM a request built from what HSMs have   *)
(* returned so far, and the HSM handles it.                                *)
(***************************************************************************)
\* the HSM's state after a request
Apply(hsm, handled) ==
    /\ persistent' = [persistent EXCEPT ![hsm] = handled.p]
    /\ volatile' = [volatile EXCEPT ![hsm] = handled.v]
    /\ Persist(hsm, handled.p)

\* the entry a response returns is known to the agents from then on
Issue(group, entry) ==
    issued_entries' = issued_entries \cup {[group |-> group, entry |-> entry]}

EntriesOf(group) == { e.entry : e \in { x \in issued_entries : x.group = group } }

\* the HSM leads the group and its log may still grow in the model
CanAppend(hsm, group) ==
    /\ IsSome(volatile[hsm].leader[group])
    /\ LastEntry(Unwrap(volatile[hsm].leader[group])).index < MaxHsmIndex

JoinGroup(hsm, group, configuration) ==
    LET handled == JoinGroupRequest(hsm, group, configuration,
                      GroupConfigurationStatementBuild(RealmId, group, configuration))
    IN /\ handled.response.result = "Ok"
       /\ Apply(hsm, handled)
       /\ UNCHANGED <<stepping_down, next_nonce, issued_entries, issued_captures,
                      issued_transfers, appointed, adopted>>
       /\ UNCHANGED storeVars
       /\ UNCHANGED coordVars

NewGroup(hsm, configuration, group) ==
    LET handled == NewGroupRequest(hsm, configuration, group)
    IN /\ \A h \in HsmIds : ~IsSome(persistent[h].groups[group])
       /\ handled.response.result = "Ok"
       /\ Apply(hsm, handled)
       /\ Issue(group, handled.response.entry)
       /\ UNCHANGED <<stepping_down, next_nonce, issued_captures,
                      issued_transfers, appointed, adopted>>
       /\ UNCHANGED storeVars
       /\ UNCHANGED coordVars

CaptureNext(hsm, group, entry) ==
    LET handled == CaptureNextRequest(hsm, group, entry)
    IN /\ handled.response.result = "Ok"
       /\ Apply(hsm, handled)
       /\ issued_captures' = issued_captures \cup {handled.response.captured}
       /\ UNCHANGED <<stepping_down, next_nonce, issued_entries,
                      issued_transfers, appointed, adopted>>
       /\ UNCHANGED storeVars
       /\ UNCHANGED coordVars

BecomeLeader(hsm, group, last_entry) ==
    LET handled == BecomeLeaderRequest(hsm, group, last_entry)
        was_leader == IsSome(volatile[hsm].leader[group])
    IN /\ handled.response.result = "Ok"
       /\ Apply(hsm, handled)
       /\ appointed' = IF was_leader THEN appointed
                       ELSE [appointed EXCEPT ![hsm][group] =
                               Unwrap(persistent[hsm].groups[group]).captured]
       /\ UNCHANGED <<stepping_down, next_nonce, issued_entries, issued_captures,
                      issued_transfers, adopted>>
       /\ UNCHANGED storeVars
       /\ UNCHANGED coordVars

Commit(hsm, group, index, entry_hmac, captures) ==
    LET handled == CommitRequest(hsm, group, index, entry_hmac, captures)
        released == StepdownReached(hsm, group, handled.v)
    IN /\ handled.response.result = "Ok"
       /\ Apply(hsm, IF released
                     THEN [handled EXCEPT !.v = ReleaseLeader(@, group)]
                     ELSE handled)
       /\ stepping_down' = IF released
                           THEN [stepping_down EXCEPT ![hsm][group] = None]
                           ELSE stepping_down
       /\ appointed' = IF released
                       THEN [appointed EXCEPT ![hsm][group] = None]
                       ELSE appointed
       /\ UNCHANGED <<next_nonce, issued_entries, issued_captures,
                      issued_transfers, adopted>>
       /\ UNCHANGED storeVars
       /\ UNCHANGED coordVars

App(hsm, group, rid, request, index, data) ==
    LET handled == AppRequest(hsm, group, rid, request, index, data)
    IN /\ CanAppend(hsm, group)
       /\ handled.response.result = "Ok"
       /\ Apply(hsm, handled)
       /\ Issue(group, handled.response.entry)
       /\ UNCHANGED <<stepping_down, next_nonce, issued_captures,
                      issued_transfers, appointed, adopted>>
       /\ UNCHANGED storeVars
       /\ UNCHANGED coordVars

\* StepDown: the leader is marked as stepping down at its tail index; if
\* that index is committed already the leader slot is released at once
StepDownHandled(hsm, group) ==
    /\ IsSome(volatile[hsm].leader[group])
    /\ ~SteppingDown(hsm, group)
    /\ LET leader == Unwrap(volatile[hsm].leader[group])
           tail == LastEntry(leader).index
           done == IsSome(leader.committed) /\ Unwrap(leader.committed) >= tail
       IN /\ volatile' = IF done
                         THEN [volatile EXCEPT ![hsm] = ReleaseLeader(@, group)]
                         ELSE volatile
          /\ stepping_down' = IF done THEN stepping_down
                              ELSE [stepping_down EXCEPT ![hsm][group] = Some(tail)]
          /\ appointed' = IF done THEN [appointed EXCEPT ![hsm][group] = None]
                          ELSE appointed
    /\ UNCHANGED <<persistent, nvram, next_nonce, issued_entries, issued_captures,
                   issued_transfers, adopted>>
    /\ UNCHANGED storeVars

StepDown(hsm, group) == StepDownHandled(hsm, group) /\ UNCHANGED coordVars

\* the HSM crashes and starts again: the persistent state is read back
\* from NVRAM, the volatile state is that of Hsm::new
Restart(hsm) ==
    /\ persistent' = [persistent EXCEPT ![hsm] = nvram[hsm]]
    /\ volatile' = [volatile EXCEPT ![hsm] = HsmNewVolatile]
    /\ stepping_down' = [stepping_down EXCEPT ![hsm] = [g \in Groups |-> None]]
    /\ appointed' = [appointed EXCEPT ![hsm] = [g \in Groups |-> None]]
    /\ UNCHANGED <<nvram, next_nonce, issued_entries, issued_captures,
                   issued_transfers, adopted>>
    /\ UNCHANGED storeVars
    /\ UNCHANGED coordVars

TransferOut(hsm, source, destination, prefix, index, data) ==
    LET handled == TransferOutRequest(hsm, source, destination, prefix, index, data)
    IN /\ CanAppend(hsm, source)
       /\ handled.response.result = "Ok"
       /\ Apply(hsm, handled)
       /\ Issue(source, handled.response.entry)
       /\ UNCHANGED <<stepping_down, next_nonce, issued_captures,
                      issued_transfers, appointed, adopted>>
       /\ UNCHANGED storeVars
       /\ UNCHANGED coordVars

TransferNonce(hsm, destination) ==
    LET handled == TransferNonceRequest(hsm, destination, next_nonce)
    IN /\ next_nonce <= MaxNonce
       /\ handled.response.result = "Ok"
       /\ Apply(hsm, handled)
       /\ next_nonce' = next_nonce + 1
       /\ UNCHANGED <<stepping_down, issued_entries, issued_captures,
                      issued_transfers, appointed, adopted>>
       /\ UNCHANGED storeVars
       /\ UNCHANGED coordVars

TransferStatement(hsm, source, destination, nonce) ==
    LET handled == TransferStatementRequest(hsm, source, destination, nonce)
    IN /\ handled.response.result = "Ok"
       /\ Apply(hsm, handled)
       /\ issued_transfers' = issued_transfers \cup
             {[statement |-> handled.response.statement,
               partition |-> Unwrap(LastEntry(Unwrap(
                                volatile[hsm].leader[source])).transferring_out).partition,
               source |-> source, destination |-> destination, nonce |-> nonce]}
       /\ UNCHANGED <<stepping_down, next_nonce, issued_entries, issued_captures,
                      appointed, adopted>>
       /\ UNCHANGED storeVars
       /\ UNCHANGED coordVars

\* a TransferIn changes the HSM also when it is refused: the nonce is spent
TransferIn(hsm, destination, partition, nonce, statement, data) ==
    LET handled == TransferInRequest(hsm, destination, partition, nonce,
                                     statement, data)
        ok == handled.response.result = "Ok"
    IN /\ ok => CanAppend(hsm, destination)
       /\ handled.v # volatile[hsm]
       /\ Apply(hsm, handled)
       /\ issued_entries' = IF ok
                            THEN issued_entries \cup
                                   {[group |-> destination,
                                     entry |-> handled.response.entry]}
                            ELSE issued_entries
       /\ adopted' = IF ok
                     THEN adopted \cup {[destination |-> destination,
                                         partition |-> partition,
                                         nonce |-> nonce]}
                     ELSE adopted
       /\ UNCHANGED <<stepping_down, next_nonce, issued_captures,
                      issued_transfers, appointed>>
       /\ UNCHANGED storeVars
       /\ UNCHANGED coordVars

CompleteTransfer(hsm, source, destination, prefix) ==
    LET handled == CompleteTransferRequest(hsm, source, destination, prefix)
    IN /\ CanAppend(hsm, source)
       /\ handled.response.result = "Ok"
       /\ Apply(hsm, handled)
       /\ Issue(source, handled.response.entry)
       /\ UNCHANGED <<stepping_down, next_nonce, issued_captures,
                      issued_transfers, appointed, adopted>>
       /\ UNCHANGED storeVars
       /\ UNCHANGED coordVars

(***************************************************************************)
(* SpecStore: the store under clients that append what they like.  Its     *)
(* entries carry no partition; an entry_hmac is a number, two per index,   *)
(* and prev_hmac names an entry_hmac of the index before (0 at FIRST).     *)
(***************************************************************************)
StoreGroup == "g1"

StoreHmac(index, variant) == 10 * index + variant

\* one entry at FIRST; from there two entries per index and previous hmac
StoreEntries ==
    { LogEntry(i, None, None,
               IF i = FIRST THEN 0 ELSE StoreHmac(i - 1, pv),
               StoreHmac(i, v)) :
        i \in 1..MaxLogIndex, pv \in 1..2, v \in 1..2 }
    \ { LogEntry(FIRST, None, None, 0, StoreHmac(FIRST, 2)) }

StoreItems == { AppendItem(e, None) : e \in StoreEntries }

\* the batches a client passes: every chained batch, and two unchained ones
StoreBatches ==
    LET all == UNION { [1..n -> StoreItems] : n \in 1..MaxBatch }
    IN { b \in all :
           \/ BatchChainOk(b)
           \/ /\ Len(b) = 2
              /\ b[1].entry.index = FIRST
              /\ b[2].entry.index = FIRST
              /\ b[1].entry.entry_hmac = b[2].entry.entry_hmac }

InitStore ==
    /\ log_rows = {}
    /\ merkle_rows = {}
    /\ remove_tasks = {}
    /\ last_write = [c \in Clients |-> None]
    /\ client_pc = [c \in Clients |-> "idle"]
    /\ client_req = [c \in Clients |-> None]
    /\ client_result = [c \in Clients |-> "none"]
    /\ persistent = [h \in HsmIds |-> HsmNewPersistent]
    /\ volatile = [h \in HsmIds |-> HsmNewVolatile]
    /\ nvram = persistent
    /\ stepping_down = [h \in HsmIds |-> [g \in Groups |-> None]]
    /\ next_nonce = 1
    /\ issued_entries = {}
    /\ issued_captures = {}
    /\ issued_transfers = {}
    /\ appointed = [h \in HsmIds |-> [g \in Groups |-> None]]
    /\ adopted = {}
    /\ CoordinatorIdle

NextStore ==
    \/ \E c \in Clients, items \in StoreBatches : AppendBegin(c, StoreGroup, items)
    \/ \E c \in Clients : AppendReadPrev(c)
    \/ \E c \in Clients : AppendWriteLog(c)

vars == <<storeVars, hsmVars, coordVars>>

SpecStore == InitStore /\ [][NextStore]_vars

(***************************************************************************)
(* Spec: one group of three HSMs.  HSM 1 created the realm and with it     *)
(* the group gA that owns every record; HSMs 2 and 3 joined the realm.     *)
(***************************************************************************)
\* longest Vec of captures a Commit request of the model carries
MaxCaptures == 2

SpecGroup == "gA"

SpecConfiguration == <<1, 2, 3>>

\* the records the clients of Spec ask for
SpecRecordIds == { <<0, 0>> }

\* what the clients of Spec ask for
SpecRequests == {"Register", "Recover"}

\* the HSMs that run; HSM 3 is a member of the group that stays down
Running == {1, 2}

RecordMapsOver(rids) == SUBSET { <<rid, "secret">> : rid \in rids }

SeqsUpTo(S, n) == UNION { [1..k -> S] : k \in 0..n }

\* the statements returned so far that name the entry, each with its HSM
CapturesFor(group, index, entry_hmac) ==
    { <<h, CapturedStatementBuild(h, RealmId, group, index, entry_hmac)>> :
        h \in { x \in HsmIds :
                  CapturedStatementBuild(x, RealmId, group, index, entry_hmac)
                     \in issued_captures } }

SpecRealm ==
    NewRealmHandle(HsmNewPersistent, HsmNewVolatile, 1, SpecConfiguration,
                   RealmId, SpecGroup)

NoneOfGroups == [h \in HsmIds |-> [g \in Groups |-> None]]

Init ==
    /\ persistent = [h \in HsmIds |->
          IF h = 1 THEN SpecRealm.p
          ELSE JoinRealmHandle(HsmNewPersistent, HsmNewVolatile, h, RealmId).p]
    /\ volatile = [h \in HsmIds |->
          IF h = 1 THEN SpecRealm.v ELSE HsmNewVolatile]
    /\ nvram = persistent
    /\ stepping_down = NoneOfGroups
    /\ next_nonce = 1
    /\ issued_entries = {[group |-> SpecGroup, entry |-> SpecRealm.response.entry]}
    /\ issued_captures = {}
    /\ issued_transfers = {}
    /\ appointed = NoneOfGroups
    /\ adopted = {}
    /\ log_rows = {}
    /\ merkle_rows = {}
    /\ remove_tasks = {}
    /\ last_write = [c \in Clients |-> None]
    /\ client_pc = [c \in Clients |-> "idle"]
    /\ client_req = [c \in Clients |-> None]
    /\ client_result = [c \in Clients |-> "none"]
    /\ CoordinatorIdle

Next ==
    \/ \E h \in Running : JoinGroup(h, SpecGroup, SpecConfiguration)
    \/ \E h \in Running, e \in EntriesOf(SpecGroup) : CaptureNext(h, SpecGroup, e)
    \/ \E h \in Running, e \in EntriesOf(SpecGroup) : BecomeLeader(h, SpecGroup, e)
    \/ \E h \in Running, e \in EntriesOf(SpecGroup) :
          \E captures \in SeqsUpTo(CapturesFor(SpecGroup, e.index, e.entry_hmac),
                                   MaxCaptures) :
             Commit(h, SpecGroup, e.index, e.entry_hmac, captures)
    \/ \E h \in Running, rid \in SpecRecordIds, request \in SpecRequests,
          index \in 1..MaxHsmIndex, data \in RecordMapsOver(SpecRecordIds) :
             App(h, SpecGroup, rid, request, index, data)

Spec == Init /\ [][Next]_vars

(***************************************************************************)
(* SpecTransfer: HSM 1 alone created the realm and leads every group of    *)
(* it: gA, which owns every record at first, and gB once NewGroup has      *)
(* made it.  Ownership moves between the groups by the transfer requests.  *)
(***************************************************************************)
TransferHsm == CHOOSE h \in HsmIds : \A x \in HsmIds : h <= x

TransferConfiguration == <<1>>

\* the prefixes a transfer request of the model names
TransferPrefixes == { <<>>, <<0>>, <<1>>, <<0, 0>>, <<1, 1>> }

TransferRealm ==
    NewRealmHandle(HsmNewPersistent, HsmNewVolatile, TransferHsm,
                   TransferConfiguration, RealmId, "gA")

InitTransfer ==
    /\ persistent = [h \in HsmIds |->
          IF h = TransferHsm THEN TransferRealm.p ELSE HsmNewPersistent]
    /\ volatile = [h \in HsmIds |->
          IF h = TransferHsm THEN TransferRealm.v ELSE HsmNewVolatile]
    /\ nvram = persistent
    /\ stepping_down = NoneOfGroups
    /\ next_nonce = 1
    /\ issued_entries = {[group |-> "gA", entry |-> TransferRealm.response.entry]}
    /\ issued_captures = {}
    /\ issued_transfers = {}
    /\ appointed = NoneOfGroups
    /\ adopted = {}
    /\ log_rows = {}
    /\ merkle_rows = {}
    /\ remove_tasks = {}
    /\ last_write = [c \in Clients |-> None]
    /\ client_pc = [c \in Clients |-> "idle"]
    /\ client_req = [c \in Clients |-> None]
    /\ client_result = [c \in Clients |-> "none"]
    /\ CoordinatorIdle

NextTransfer ==
    \/ NewGroup(TransferHsm, TransferConfiguration, "gB")
    \/ \E g \in Groups : \E e \in EntriesOf(g) : CaptureNext(TransferHsm, g, e)
    \/ \E g \in Groups : \E e \in EntriesOf(g) :
          Commit(TransferHsm, g, e.index, e.entry_hmac, <<>>)
    \/ \E source \in Groups, destination \in Groups, prefix \in TransferPrefixes,
          index \in 1..MaxHsmIndex :
             /\ source # destination
             /\ TransferOut(TransferHsm, source, destination, prefix, index,
                            RecordMapNew)
    \/ \E destination \in Groups : TransferNonce(TransferHsm, destination)
    \/ \E source \in Groups, destination \in Groups, nonce \in 1..MaxNonce :
          /\ nonce < next_nonce
          /\ TransferStatement(TransferHsm, source, destination, nonce)
    \/ \E t \in issued_transfers, destination \in Groups :
          TransferIn(TransferHsm, destination, t.partition, t.nonce,
                     t.statement, RecordMapNew)
    \/ \E source \in Groups, destination \in Groups, prefix \in TransferPrefixes :
          CompleteTransfer(TransferHsm, source, destination, prefix)

SpecTransfer == InitTransfer /\ [][NextTransfer]_vars

\* the latest log entry of a group: the tail of its leader's log
GroupLeads(group) == IsSome(volatile[TransferHsm].leader[group])

GroupTail(group) == LastEntry(Unwrap(volatile[TransferHsm].leader[group]))

\* every group's latest entry is committed
AllCommitted ==
    \A g \in Groups :
        GroupLeads(g) =>
            Unwrap(volatile[TransferHsm].leader[g]).committed
               = Some(GroupTail(g).index)

\* the group owns the record: the partition of its latest entry holds it
Owns(group, rid) ==
    /\ GroupLeads(group)
    /\ IsSome(GroupTail(group).partition)
    /\ OwnedPrefixContains(Unwrap(GroupTail(group).partition).prefix, rid)

\* the record is in flight out of the group: its latest entry is
\* transferring it out and the destination has not taken it in
InFlightFrom(group, rid) ==
    /\ GroupLeads(group)
    /\ IsSome(GroupTail(group).transferring_out)
    /\ LET t == Unwrap(GroupTail(group).transferring_out)
       IN /\ OwnedPrefixContains(t.partition.prefix, rid)
          /\ ~\E a \in adopted : /\ a.destination = t.destination
                                 /\ a.partition = t.partition

Holders(rid) ==
    { <<"owned", g>> : g \in { x \in Groups : Owns(x, rid) } }
    \cup { <<"in flight", g>> : g \in { x \in Groups : InFlightFrom(x, rid) } }

\* C3: at every commit point each record id is held exactly once: owned by
\* one group or in flight in one transfer, never both, never twice, never
\* by nobody.
C3_RangesPartitionTheSpace ==
    AllCommitted => \A rid \in RecordIds : Cardinality(Holders(rid)) = 1

(***************************************************************************)
(* Claims about the log table (SpecStore).                                 *)
(***************************************************************************)
\* the entry_hmac values stored in the log table at an index of a group
HmacsAt(rows, group, index) ==
    { e.entry_hmac : e \in CellsAt(rows, group, index) }

\* C1: at every index of the group's log at most one entry_hmac value is
\* stored, whatever appends the clients interleave (batches included).
C1_AtMostOneHmacPerIndex ==
    \A i \in 1..(MaxLogIndex + MaxBatch) :
        Cardinality(HmacsAt(log_rows, StoreGroup, i)) <= 1

\* C2: every stored entry at an index i > 1 has prev_hmac equal to the
\* entry_hmac of the entry stored at index i-1.
C2_StoredChain ==
    \A i \in 2..(MaxLogIndex + MaxBatch) :
        \A e \in CellsAt(log_rows, StoreGroup, i) :
            /\ CellsAt(log_rows, StoreGroup, i - 1) # {}
            /\ \A p \in CellsAt(log_rows, StoreGroup, i - 1) :
                  e.prev_hmac = p.entry_hmac

\* what remains true of the chain: each stored entry at i > 1 continues
\* some entry stored at i-1
StoredChainSomePrev ==
    \A i \in 2..(MaxLogIndex + MaxBatch) :
        \A e \in CellsAt(log_rows, StoreGroup, i) :
            \E p \in CellsAt(log_rows, StoreGroup, i - 1) :
                e.prev_hmac = p.entry_hmac
(***************************************************************************)
(* SpecRestart and SpecStepDown: the group of Spec, with HSMs that crash   *)
(* and start again, and with leaders that are asked to step down.          *)
(***************************************************************************)
\* what the clients of these two ask for
PlainRequests == {"Register"}

NextRestart ==
    \/ \E h \in Running : JoinGroup(h, SpecGroup, SpecConfiguration)
    \/ \E h \in Running, e \in EntriesOf(SpecGroup) : CaptureNext(h, SpecGroup, e)
    \/ \E h \in Running, e \in EntriesOf(SpecGroup) : BecomeLeader(h, SpecGroup, e)
    \/ \E h \in Running, e \in EntriesOf(SpecGroup) :
          \E captures \in SeqsUpTo(CapturesFor(SpecGroup, e.index, e.entry_hmac),
                                   MaxCaptures) :
             Commit(h, SpecGroup, e.index, e.entry_hmac, captures)
    \/ \E h \in Running, rid \in SpecRecordIds, request \in PlainRequests,
          index \in 1..MaxHsmIndex, data \in RecordMapsOver(SpecRecordIds) :
             App(h, SpecGroup, rid, request, index, data)
    \/ \E h \in Running : Restart(h)

SpecRestart == Init /\ [][NextRestart]_vars

NextStepDown ==
    \/ \E h \in Running : JoinGroup(h, SpecGroup, SpecConfiguration)
    \/ \E h \in Running, e \in EntriesOf(SpecGroup) : CaptureNext(h, SpecGroup, e)
    \/ \E h \in Running, e \in EntriesOf(SpecGroup) : BecomeLeader(h, SpecGroup, e)
    \/ \E h \in Running, e \in EntriesOf(SpecGroup) :
          \E captures \in SeqsUpTo(CapturesFor(SpecGroup, e.index, e.entry_hmac),
                                   MaxCaptures) :
             Commit(h, SpecGroup, e.index, e.entry_hmac, captures)
    \/ \E h \in Running, rid \in SpecRecordIds, request \in PlainRequests,
          index \in 1..MaxHsmIndex, data \in RecordMapsOver(SpecRecordIds) :
             App(h, SpecGroup, rid, request, index, data)
    \/ \E h \in Running : StepDown(h, SpecGroup)

SpecStepDown == Init /\ [][NextStepDown]_vars

(***************************************************************************)
(* Claims about the group (Spec, SpecRestart, SpecStepDown).               *)
(***************************************************************************)
IsLeader(hsm, group) == IsSome(volatile[hsm].leader[group])

LeaderOf(hsm, group) == Unwrap(volatile[hsm].leader[group])

\* the index an HSM has captured in a group, 0 when it has captured nothing
CapturedIndex(p, group) ==
    IF IsSome(p.groups[group]) /\ IsSome(Unwrap(p.groups[group]).captured)
    THEN Unwrap(Unwrap(p.groups[group]).captured).index
    ELSE 0

\* the commit index of a leader, 0 when nothing is committed
CommitIndex(leader) == IF IsSome(leader.committed) THEN Unwrap(leader.committed) ELSE 0

\* Commit requests as any agent may send them: about an entry that exists,
\* with statements about its index, each under any HSM's name
CommitPairs(group, index) ==
    { <<x, s>> : x \in HsmIds,
                 s \in { c \in issued_captures : c[4] = group /\ c[5] = index } }

CommitInputs(group) ==
    UNION { { [index |-> e.index, entry_hmac |-> e.entry_hmac, captures |-> c] :
                c \in SeqsUpTo(CommitPairs(group, e.index), MaxCaptures) } :
            e \in EntriesOf(group) }

\* C4: a Commit releases exactly responses that were attached to entries
\* of the leader's log with an index at most the new commit index, and
\* detaches them, so that none is released again; no request but a Commit
\* that raises the commit index to the entry's index or beyond detaches a
\* response.
C4_ResponsesReleasedAtCommit ==
    /\ [](\A h \in Running : \A req \in CommitInputs(SpecGroup) :
            LET r == CommitRequest(h, SpecGroup, req.index, req.entry_hmac,
                                   req.captures)
            IN IF r.response.result # "Ok"
               THEN r.v = volatile[h]
               ELSE LET old == LeaderOf(h, SpecGroup).log
                        new == Unwrap(r.v.leader[SpecGroup])
                        out == r.response.responses
                    IN /\ \A k \in 1..Len(out) :
                            \E j \in 1..Len(old) :
                               /\ old[j].entry.entry_hmac = out[k][1]
                               /\ old[j].response = Some(out[k][2])
                               /\ old[j].entry.index <= CommitIndex(new)
                               /\ new.log[j].response = None
                       /\ \A j \in 1..Len(old) :
                            new.log[j].response # old[j].response =>
                               \E k \in 1..Len(out) :
                                  out[k] = <<old[j].entry.entry_hmac,
                                             Unwrap(old[j].response)>>)
    /\ [][\A h \in Running :
            (IsLeader(h, SpecGroup) /\ IsLeader(h, SpecGroup)') =>
               \A j \in 1..Len(LeaderOf(h, SpecGroup).log) :
                  LeaderOf(h, SpecGroup)'.log[j].response
                        # LeaderOf(h, SpecGroup).log[j].response
                  => /\ LeaderOf(h, SpecGroup)'.log[j].response = None
                     /\ CommitIndex(LeaderOf(h, SpecGroup)')
                           >= LeaderOf(h, SpecGroup).log[j].entry.index
                     /\ CommitIndex(LeaderOf(h, SpecGroup)')
                           > CommitIndex(LeaderOf(h, SpecGroup))]_vars

\* a leader has an entry whose response a Commit has released
C4_Witness ==
    \E h \in Running :
        /\ IsLeader(h, SpecGroup)
        /\ \E j \in 2..Len(LeaderOf(h, SpecGroup).log) :
              /\ LeaderOf(h, SpecGroup).log[j].response = None
              /\ IsSome(LeaderOf(h, SpecGroup).log[j].delta)
              /\ CommitIndex(LeaderOf(h, SpecGroup))
                    >= LeaderOf(h, SpecGroup).log[j].entry.index

\* the HSMs of the configuration that stand behind (index, entry_hmac) in a
\* Commit request to hsm: those under whose name the request carries the
\* statement of just that HSM for just that entry, and hsm itself if that
\* entry is what it has captured
Backers(hsm, group, req) ==
    LET state == Unwrap(persistent[hsm].groups[group])
    IN { x \in HsmIds :
           /\ \E k \in 1..Len(state.configuration) : state.configuration[k] = x
           /\ \/ \E k \in 1..Len(req.captures) :
                    req.captures[k] = <<x, <<"captured", x, RealmId, group,
                                              req.index, req.entry_hmac>>>>
              \/ /\ x = hsm
                 /\ state.captured = Some([index |-> req.index,
                                           entry_hmac |-> req.entry_hmac]) }

\* C5: a Commit advances the commit index to the index of the request only
\* if more than half of the configuration stands behind the entry; a
\* leader asked to commit beyond its commit index without that majority
\* answers NoQuorum and keeps its commit index.
C5_CommitNeedsMajority ==
    \A h \in Running : \A req \in CommitInputs(SpecGroup) :
        LET r == CommitRequest(h, SpecGroup, req.index, req.entry_hmac, req.captures)
            size == Len(Unwrap(persistent[h].groups[SpecGroup]).configuration)
            backers == Cardinality(Backers(h, SpecGroup, req))
        IN IsLeader(h, SpecGroup) =>
             /\ r.response.result = "Ok" =>
                   /\ 2 * backers > size
                   /\ Unwrap(r.v.leader[SpecGroup]).committed = Some(req.index)
             /\ (CommitIndex(LeaderOf(h, SpecGroup)) < req.index
                   /\ ~(2 * backers > size)) =>
                   /\ r.response.result = "NoQuorum"
                   /\ r.v = volatile[h]

\* a leader has committed an entry, and some leader is one capture short
\* of committing another
C5_Witness ==
    /\ \E h \in Running :
          IsLeader(h, SpecGroup) /\ CommitIndex(LeaderOf(h, SpecGroup)) >= 2
    /\ \E h \in Running : \E req \in CommitInputs(SpecGroup) :
          /\ IsLeader(h, SpecGroup)
          /\ CommitIndex(LeaderOf(h, SpecGroup)) < req.index
          /\ Cardinality(Backers(h, SpecGroup, req)) = 1

\* C6: no step lowers the index an HSM has captured in a group; a step
\* that changes it raises it by exactly one, and that is what a successful
\* CaptureNext does.
C6_CapturedIndexMonotonic ==
    /\ [][\A h \in HsmIds : \A g \in Groups :
            \/ CapturedIndex(persistent[h], g)' = CapturedIndex(persistent[h], g)
            \/ CapturedIndex(persistent[h], g)' = CapturedIndex(persistent[h], g) + 1]_vars
    /\ [](\A h \in Running : \A e \in EntriesOf(SpecGroup) :
            LET r == CaptureNextRequest(h, SpecGroup, e)
            IN /\ r.response.result = "Ok" =>
                    CapturedIndex(r.p, SpecGroup)
                       = CapturedIndex(persistent[h], SpecGroup) + 1
               /\ r.response.result # "Ok" => r.p = persistent[h])

\* an HSM that joined the group has captured two entries and leads it
C6_Witness ==
    /\ CapturedIndex(persistent[2], SpecGroup) >= 2
    /\ IsLeader(2, SpecGroup)
    /\ Len(LeaderOf(2, SpecGroup).log) >= 2

\* C8: the commit index of a leader is at most the index of the last
\* entry of its log.
C8_CommitIndexAtMostTail ==
    \A h \in HsmIds : \A g \in Groups :
        IsLeader(h, g) => CommitIndex(LeaderOf(h, g)) <= LastEntry(LeaderOf(h, g)).index

\* C10: the first entry that an HSM appends after BecomeLeader made it
\* leader continues what the HSM had captured at that moment: its index is
\* the captured index plus one and its prev_hmac the captured entry_hmac.
C10_FirstAppendContinuesCapture ==
    \A h \in HsmIds : \A g \in Groups :
        (/\ IsLeader(h, g)
         /\ IsSome(appointed[h][g])
         /\ Len(LeaderOf(h, g).log) >= 2)
        => /\ LeaderOf(h, g).log[2].entry.index
                 = Unwrap(appointed[h][g]).index + 1
           /\ LeaderOf(h, g).log[2].entry.prev_hmac
                 = Unwrap(appointed[h][g]).entry_hmac

\* an HSM that BecomeLeader made leader at an index above 1 has appended
C10_Witness ==
    \E h \in HsmIds :
        /\ IsLeader(h, SpecGroup)
        /\ IsSome(appointed[h][SpecGroup])
        /\ Unwrap(appointed[h][SpecGroup]).index >= 2
        /\ Len(LeaderOf(h, SpecGroup).log) >= 2

LastEntryInputs(group) ==
    EntriesOf(group)
      \cup { [e EXCEPT !.prev_hmac = x.entry_hmac] :
                e \in EntriesOf(group), x \in EntriesOf(group) }

\* the index and entry_hmac of the entry are those the HSM has captured
NamesCaptured(hsm, group, entry) ==
    Unwrap(persistent[hsm].groups[group]).captured
        = Some([index |-> entry.index, entry_hmac |-> entry.entry_hmac])

\* the entry_hmac of the entry is the MAC of the entry's other fields
MacCovers(group, entry) ==
    entry.entry_hmac = <<"entry", RealmId, group, entry.index, entry.partition,
                         entry.transferring_out, entry.prev_hmac>>

Battlers == {1, 2}

\* the store client of the agent of an HSM
AgentOf(hsm) == IF hsm = 1 THEN "c1" ELSE "c2"

BattleGenesis == SpecRealm.response.entry

\* the HSM after JoinRealm and JoinGroup
BattleJoined(hsm) ==
    LET a == JoinRealmHandle(HsmNewPersistent, HsmNewVolatile, hsm, RealmId)
    IN JoinGroupHandle(a.p, a.v, hsm, RealmId, SpecGroup, SpecConfiguration,
          GroupConfigurationStatementBuild(RealmId, SpecGroup, SpecConfiguration))

\* the HSM after it captured the genesis entry and was made leader
BattleLeader(hsm) ==
    LET s == IF hsm = 1 THEN SpecRealm ELSE BattleJoined(hsm)
        c == CaptureNextHandle(s.p, s.v, hsm, RealmId, SpecGroup, BattleGenesis)
    IN BecomeLeaderHandle(c.p, c.v, hsm, RealmId, SpecGroup, BattleGenesis)

\* what the agent of HSM 1 remembers of the append of the genesis entry
GenesisWrite ==
    Some([group |-> SpecGroup, index |-> FIRST,
          entry_hmac |-> BattleGenesis.entry_hmac])

InitBattle ==
    /\ persistent = [h \in HsmIds |->
          IF h \in Battlers THEN BattleLeader(h).p
          ELSE JoinRealmHandle(HsmNewPersistent, HsmNewVolatile, h, RealmId).p]
    /\ volatile = [h \in HsmIds |->
          IF h \in Battlers THEN BattleLeader(h).v ELSE HsmNewVolatile]
    /\ nvram = persistent
    /\ stepping_down = NoneOfGroups
    /\ next_nonce = 1
    /\ issued_entries = {[group |-> SpecGroup, entry |-> BattleGenesis]}
    /\ issued_captures =
          { CapturedStatementBuild(h, RealmId, SpecGroup, FIRST,
                                   BattleGenesis.entry_hmac) : h \in Battlers }
    /\ issued_transfers = {}
    /\ appointed = [NoneOfGroups EXCEPT ![2][SpecGroup] =
                       Unwrap(BattleLeader(2).p.groups[SpecGroup]).captured]
    /\ adopted = {}
    /\ log_rows = {[key |-> log_key(SpecGroup, FIRST),
                    cells |-> RowCells(<<AppendItem(BattleGenesis, None)>>)]}
    /\ merkle_rows = {}
    /\ remove_tasks = {}
    /\ \E lw \in {None, GenesisWrite} :
          last_write = [c \in Clients |-> IF c = AgentOf(1) THEN lw ELSE None]
    /\ client_pc = [c \in Clients |-> "idle"]
    /\ client_req = [c \in Clients |-> None]
    /\ client_result = [c \in Clients |-> "none"]
    /\ CoordinatorIdle

\* the highest index the agent's store client has written, FIRST at least
WrittenIndex(c) ==
    IF IsSome(last_write[c]) THEN Unwrap(last_write[c]).index ELSE FIRST

RECURSIVE ItemsAfter(_, _, _)
\* the entries of a leader's log from position k on with an index above
\* `index`, as the items of one append
ItemsAfter(log, k, index) ==
    IF k > Len(log) THEN <<>>
    ELSE IF log[k].entry.index > index
    THEN <<AppendItem(log[k].entry, None)>> \o ItemsAfter(log, k + 1, index)
    ELSE ItemsAfter(log, k + 1, index)

\* the entries the HSM has created and its agent has not appended yet
PendingItems(hsm) ==
    ItemsAfter(LeaderOf(hsm, SpecGroup).log, 1, WrittenIndex(AgentOf(hsm)))

\* the agent appends what its HSM has created; after a LogPrecondition it
\* appends no more
AgentAppend(hsm) ==
    /\ IsLeader(hsm, SpecGroup)
    /\ ~SteppingDown(hsm, SpecGroup)
    /\ client_result[AgentOf(hsm)] # "LogPrecondition"
    /\ PendingItems(hsm) # <<>>
    /\ AppendBegin(AgentOf(hsm), SpecGroup, PendingItems(hsm))

\* LogPrecondition on append: the agent steps its HSM down
AgentStepDown(hsm) ==
    /\ client_result[AgentOf(hsm)] = "LogPrecondition"
    /\ StepDown(hsm, SpecGroup)

NextBattle ==
    \/ \E h \in Battlers, rid \in SpecRecordIds, request \in SpecRequests,
          index \in 1..MaxHsmIndex, data \in RecordMapsOver(SpecRecordIds) :
             App(h, SpecGroup, rid, request, index, data)
    \/ \E h \in Battlers : AgentAppend(h)
    \/ \E h \in Battlers : AppendReadPrev(AgentOf(h))
    \/ \E h \in Battlers : AppendWriteLog(AgentOf(h))
    \/ \E h \in Battlers : AgentStepDown(h)

\* an agent's task runs on once it can: its append goes through its steps
\* and a LogPrecondition is followed by the stepdown
SpecBattle ==
    /\ InitBattle
    /\ [][NextBattle]_vars
    /\ WF_vars(\E h \in Battlers : AppendReadPrev(AgentOf(h)))
    /\ WF_vars(\E h \in Battlers : AppendWriteLog(AgentOf(h)))
    /\ \A h \in Battlers : WF_vars(AgentStepDown(h))

\* the agent of the HSM has appended an entry of its HSM's making
Won(hsm) == WrittenIndex(AgentOf(hsm)) > FIRST

\* the append of the HSM's agent was answered LogPrecondition
Lost(hsm) == client_result[AgentOf(hsm)] = "LogPrecondition"

\* the HSM acts as leader of the group
Leads(hsm) == IsLeader(hsm, SpecGroup) /\ ~SteppingDown(hsm, SpecGroup)

\* the appends of both agents have been answered
BattleDecided == \A h \in Battlers : Won(h) \/ Lost(h)

\* C11: of two leaders at the same tail index whose agents append at the
\* next index, the append of one succeeds and the other is answered
\* LogPrecondition; an HSM that was stepped down answers NotLeader to
\* every app request; and once both appends are answered the group comes
\* to have exactly one leader, the HSM whose agent's append succeeded.
C11_AppendBattle ==
    /\ [](~(Won(1) /\ Won(2)))
    /\ [](\A h \in Battlers : Lost(h) => \E w \in Battlers \ {h} : Won(w))
    /\ [](\A h \in Battlers : ~Leads(h) =>
            \A rid \in SpecRecordIds, request \in SpecRequests,
               index \in 1..MaxHsmIndex, data \in RecordMapsOver(SpecRecordIds) :
                 LET r == AppRequest(h, SpecGroup, rid, request, index, data)
                 IN /\ r.response.result = "NotLeader"
                    /\ r.v = volatile[h])
    /\ [](\A h \in Battlers : Won(h) => Leads(h))
    /\ BattleDecided ~>
          [](\E w \in Battlers : /\ Won(w)
                                 /\ {h \in Battlers : Leads(h)} = {w})

\* both HSMs appended different entries at index 2, the agent of one was
\* answered LogPrecondition and has stepped its HSM down
C11_Witness ==
    \E w \in Battlers : \E l \in Battlers \ {w} :
        /\ Won(w) /\ Lost(l)
        /\ Leads(w) /\ SteppingDown(l, SpecGroup)
        /\ Len(LeaderOf(w, SpecGroup).log) >= 2
        /\ Len(LeaderOf(l, SpecGroup).log) >= 2
        /\ LeaderOf(w, SpecGroup).log[2].entry # LeaderOf(l, SpecGroup).log[2].entry

\* what an append in progress is about: the index before its first item
\* holds no entry, or an entry with another entry_hmac than the first
\* item's prev_hmac, or the row of its first index exists
PrevMissing(req) ==
    /\ req.items[1].entry.index # FIRST
    /\ ~IsSome(read_log_entry(log_rows, req.group,
                              IndexPrev(req.items[1].entry.index)))

PrevDiffers(req) ==
    LET first == req.items[1].entry
        prev == read_log_entry(log_rows, req.group, IndexPrev(first.index))
    IN /\ first.index # FIRST
       /\ IsSome(prev)
       /\ Unwrap(prev).entry_hmac # first.prev_hmac

FirstRowExists(req) ==
    RowExists(log_rows, log_key(req.group, req.items[1].entry.index))

\* the step ends the append call of the client
CallEnds(c) == client_pc[c] # "idle" /\ client_pc'[c] = "idle"

\* C12: an append call that ends while the entry before its first index is
\* absent, or has an entry_hmac other than the first item's prev_hmac, or
\* while the row of its first index exists, ends with LogPrecondition; and
\* a call that ends with LogPrecondition has stored no log row.
C12_AppendLogPrecondition ==
    [][\A c \in Clients :
         /\ CallEnds(c) =>
              LET req == Unwrap(client_req[c])
              IN (PrevMissing(req) \/ PrevDiffers(req) \/ FirstRowExists(req))
                    => client_result'[c] = "LogPrecondition"
         /\ (/\ client_result'[c] = "LogPrecondition"
             /\ <<client_pc[c], client_result[c]>> # <<client_pc'[c], client_result'[c]>>)
              => log_rows' = log_rows]_vars

\* the same for calls that end while no index holds two entry_hmacs
C12_WhileOneHmacPerIndex ==
    [][C1_AtMostOneHmacPerIndex =>
        \A c \in Clients :
         /\ CallEnds(c) =>
              LET req == Unwrap(client_req[c])
              IN (PrevMissing(req) \/ PrevDiffers(req) \/ FirstRowExists(req))
                    => client_result'[c] = "LogPrecondition"
         /\ (/\ client_result'[c] = "LogPrecondition"
             /\ <<client_pc[c], client_result[c]>> # <<client_pc'[c], client_result'[c]>>)
              => log_rows' = log_rows]_vars

\* the entries of a leader's log behind the one it started from: in Spec
\* each of them was appended for an app request
AppEntries(log) == 2..Len(log)

\* the position in log of the entry with that entry_hmac
PositionOf(log, entry_hmac) ==
    CHOOSE j \in 1..Len(log) : log[j].entry.entry_hmac = entry_hmac

\* C13: the entries a leader appends for app requests get consecutive,
\* increasing indexes in the order of acceptance; a Commit at index n
\* releases every response not yet released of an entry with an index at
\* most n, in the order of the indexes; and in no leader's log has an entry
\* its response released while an entry with a lower index still holds one.
C13_ResponsesInIndexOrder ==
    /\ [][\A h \in Running :
            (IsLeader(h, SpecGroup) /\ IsLeader(h, SpecGroup)'
             /\ LeaderOf(h, SpecGroup)'.log # LeaderOf(h, SpecGroup).log
             /\ Len(LeaderOf(h, SpecGroup)'.log) # Len(LeaderOf(h, SpecGroup).log))
            => LET old == LeaderOf(h, SpecGroup).log
                   new == LeaderOf(h, SpecGroup)'.log
               IN /\ Len(new) = Len(old) + 1
                  /\ SubSeq(new, 1, Len(old)) = old
                  /\ new[Len(new)].entry.index = old[Len(old)].entry.index + 1]_vars
    /\ [](\A h \in Running : \A req \in CommitInputs(SpecGroup) :
            LET r == CommitRequest(h, SpecGroup, req.index, req.entry_hmac,
                                   req.captures)
            IN r.response.result = "Ok" =>
               LET old == LeaderOf(h, SpecGroup).log
                   new == Unwrap(r.v.leader[SpecGroup]).log
                   out == r.response.responses
               IN /\ \A j \in 1..Len(old) :
                       (IsSome(old[j].response) /\ old[j].entry.index <= req.index)
                       => /\ new[j].response = None
                          /\ \E k \in 1..Len(out) :
                                out[k] = <<old[j].entry.entry_hmac,
                                           Unwrap(old[j].response)>>
                  /\ \A k1, k2 \in 1..Len(out) :
                       k1 < k2 =>
                          old[PositionOf(old, out[k1][1])].entry.index
                             < old[PositionOf(old, out[k2][1])].entry.index)
    /\ [](\A h \in Running :
            IsLeader(h, SpecGroup) =>
               LET log == LeaderOf(h, SpecGroup).log
               IN \A j, k \in AppEntries(log) :
                     (log[j].entry.index < log[k].entry.index
                      /\ IsSome(log[j].response))
                     => IsSome(log[k].response))

\* a leader has accepted two app requests; the response of the first is
\* released and that of the second is not
C13_Witness ==
    \E h \in Running :
        /\ IsLeader(h, SpecGroup)
        /\ LET log == LeaderOf(h, SpecGroup).log
           IN \E j, k \in 1..Len(log) :
                 /\ log[k].entry.index = log[j].entry.index + 1
                 /\ IsSome(log[j].delta) /\ log[j].response = None
                 /\ IsSome(log[k].response)
                 /\ CommitIndex(LeaderOf(h, SpecGroup)) = log[j].entry.index

\* Commit requests about any index, naming any entry_hmac returned so far
\* or none, with statements about that index
AnyCommitInputs(group) ==
    UNION { { [index |-> i, entry_hmac |-> m, captures |-> c] :
                m \in { e.entry_hmac : e \in EntriesOf(group) } \cup {EntryHmacZero},
                c \in SeqsUpTo(CommitPairs(group, i), MaxCaptures) } :
            i \in 1..MaxHsmIndex }

\* C14: a Commit that names an index at most the leader's commit index is
\* answered AlreadyCommitted with that commit index and changes nothing on
\* the HSM: no response leaves the log, the commit index stays; and the
\* commit index of a leader never goes down.
C14_AlreadyCommitted ==
    /\ [](\A h \in Running : \A req \in AnyCommitInputs(SpecGroup) :
            (/\ IsLeader(h, SpecGroup)
             /\ IsSome(LeaderOf(h, SpecGroup).committed)
             /\ req.index <= Unwrap(LeaderOf(h, SpecGroup).committed))
            => LET r == CommitRequest(h, SpecGroup, req.index, req.entry_hmac,
                                      req.captures)
               IN /\ r.response = [result |-> "AlreadyCommitted",
                                   committed |-> Unwrap(LeaderOf(h, SpecGroup).committed)]
                  /\ r.v = volatile[h]
                  /\ r.p = persistent[h])
    /\ [][\A h \in Running :
            (IsLeader(h, SpecGroup) /\ IsLeader(h, SpecGroup)')
            => CommitIndex(LeaderOf(h, SpecGroup)')
                  >= CommitIndex(LeaderOf(h, SpecGroup))]_vars

\* a leader has committed an index, still holds a response for a later
\* entry, and a Commit for the committed index with the statements of a
\* majority can be sent to it
C14_Witness ==
    \E h \in Running :
        /\ IsLeader(h, SpecGroup)
        /\ IsSome(LeaderOf(h, SpecGroup).committed)
        /\ \E j \in 1..Len(LeaderOf(h, SpecGroup).log) :
              IsSome(LeaderOf(h, SpecGroup).log[j].response)
        /\ \E req \in CommitInputs(SpecGroup) :
              /\ req.index = Unwrap(LeaderOf(h, SpecGroup).committed)
              /\ HasQuorum(Cardinality(CommitCaptures(
                               Unwrap(persistent[h].groups[SpecGroup]), h, RealmId,
                               SpecGroup, req.index, req.entry_hmac, req.captures)),
                           SpecConfiguration)

\* entries as any agent may pass them to CaptureNext: those returned so
\* far, and those with another prev_hmac or another index written in
CaptureInputs(group) ==
    LastEntryInputs(group)
      \cup { [e EXCEPT !.index = i] : e \in EntriesOf(group), i \in 1..MaxHsmIndex }

\* the index and the prev_hmac that the next entry to capture has to carry
NextToCapture(hsm, group) ==
    LET captured == Unwrap(persistent[hsm].groups[group]).captured
    IN IF IsSome(captured)
       THEN [index |-> Unwrap(captured).index + 1,
             prev_hmac |-> Unwrap(captured).entry_hmac]
       ELSE [index |-> 1, prev_hmac |-> EntryHmacZero]

\* what C15 says about one HSM and one entry
GapOrBrokenChainRejected(hsm, group, entry) ==
    LET r == CaptureNextRequest(hsm, group, entry)
        next == NextToCapture(hsm, group)
    IN /\ entry.index # next.index
          => r = Handled([result |-> "MissingPrev"], persistent[hsm], volatile[hsm])
       /\ (entry.index = next.index /\ entry.prev_hmac # next.prev_hmac)
          => r = Handled([result |-> "InvalidChain"], persistent[hsm], volatile[hsm])

\* C15 as stated: CaptureNext with an entry whose index is not the one
\* after the captured index (not 1 when nothing is captured) is answered
\* MissingPrev, with the right index and a prev_hmac other than the
\* captured entry_hmac (other than zero at index 1) InvalidChain; the
\* captured state stays and the answer carries no statement.
C15_GapsAndBrokenChains ==
    \A h \in Running : \A e \in CaptureInputs(SpecGroup) :
        IsSome(persistent[h].groups[SpecGroup])
        => GapOrBrokenChainRejected(h, SpecGroup, e)

\* C15, amended: the same for entries whose entry_hmac is the MAC of their
\* fields; an entry whose MAC does not verify is answered InvalidHmac,
\* whatever its index and prev_hmac, and the captured state stays as well.
C15_GapsAndBrokenChainsOfVerified ==
    \A h \in Running : \A e \in CaptureInputs(SpecGroup) :
        IsSome(persistent[h].groups[SpecGroup])
        => IF MacCovers(SpecGroup, e)
           THEN GapOrBrokenChainRejected(h, SpecGroup, e)
           ELSE CaptureNextRequest(h, SpecGroup, e)
                   = Handled([result |-> "InvalidHmac"], persistent[h], volatile[h])

\* an HSM has captured an entry, and among the entries returned so far
\* are one with an index other than the next one and one with the next index
\* that continues another entry
C15_Witness ==
    \E h \in Running :
        /\ IsSome(persistent[h].groups[SpecGroup])
        /\ IsSome(Unwrap(persistent[h].groups[SpecGroup]).captured)
        /\ \E gap, fork \in EntriesOf(SpecGroup) :
              /\ MacCovers(SpecGroup, gap) /\ MacCovers(SpecGroup, fork)
              /\ gap.index # NextToCapture(h, SpecGroup).index
              /\ fork.index = NextToCapture(h, SpecGroup).index
              /\ fork.prev_hmac # NextToCapture(h, SpecGroup).prev_hmac
              /\ CaptureNextRequest(h, SpecGroup, gap).response.result = "MissingPrev"
              /\ CaptureNextRequest(h, SpecGroup, fork).response.result = "InvalidChain"

(***************************************************************************)
(* SpecFirstIndex: the two leaders of SpecBattle and their agents, with    *)
(* a second group created and with entries captured.                       *)
(***************************************************************************)
NewGroupId == CHOOSE g \in Groups : g # SpecGroup

NextFirstIndex ==
    \/ \E h \in Battlers, rid \in SpecRecordIds, request \in SpecRequests,
          index \in 1..MaxHsmIndex, data \in RecordMapsOver(SpecRecordIds) :
             App(h, SpecGroup, rid, request, index, data)
    \/ \E h \in Battlers : AgentAppend(h)
    \/ \E h \in Battlers : AppendReadPrev(AgentOf(h))
    \/ \E h \in Battlers : AppendWriteLog(AgentOf(h))
    \/ \E h \in Battlers : NewGroup(h, SpecConfiguration, NewGroupId)
    \/ \E h \in Battlers, g \in Groups : \E e \in EntriesOf(g) : CaptureNext(h, g, e)

SpecFirstIndex == InitBattle /\ [][NextFirstIndex]_vars

\* the entry starts a log or continues one: its index is FIRST and its
\* prev_hmac the zero MAC, or its index is higher
StartsOrContinues(entry) ==
    /\ entry.index >= 1
    /\ entry.index = 1 => entry.prev_hmac = EntryHmacZero

\* the entries whose cells the log table holds
StoredEntries ==
    UNION { { row.cells[k] : k \in DOMAIN row.cells } : row \in log_rows }

\* C16: every entry an HSM has created, holds in a leader's log or has
\* captured, and every entry the log table holds, has an index of 1 at
\* least, and with index 1 the zero MAC as prev_hmac; the first entry
\* created for a group has index 1.
C16_FirstIndexIsOne ==
    /\ [](\A x \in issued_entries : StartsOrContinues(x.entry))
    /\ [](\A h \in HsmIds, g \in Groups :
            IsLeader(h, g) =>
               \A k \in 1..Len(LeaderOf(h, g).log) :
                  StartsOrContinues(LeaderOf(h, g).log[k].entry))
    /\ [](\A h \in HsmIds, g \in Groups :
            (IsSome(persistent[h].groups[g])
             /\ IsSome(Unwrap(persistent[h].groups[g]).captured))
            => LET captured == Unwrap(Unwrap(persistent[h].groups[g]).captured)
               IN /\ captured.index >= 1
                  /\ \E e \in EntriesOf(g) :
                        /\ e.index = captured.index
                        /\ e.entry_hmac = captured.entry_hmac
                        /\ StartsOrContinues(e))
    /\ [](\A e \in StoredEntries : StartsOrContinues(e))
    /\ [][\A g \in Groups :
            (EntriesOf(g) = {} /\ EntriesOf(g)' # {})
            => \A e \in EntriesOf(g)' : e.index = 1 /\ e.prev_hmac = EntryHmacZero]_vars

\* a second group has been created and its first entry captured, and the
\* log table holds the first entry of the first group and a later one
C16_Witness ==
    /\ \E h \in Battlers :
          /\ IsSome(persistent[h].groups[NewGroupId])
          /\ IsSome(Unwrap(persistent[h].groups[NewGroupId]).captured)
          /\ Unwrap(Unwrap(persistent[h].groups[NewGroupId]).captured).index = 1
    /\ \E e1, e2 \in StoredEntries : e1.index = 1 /\ e2.index = 2

\* TransferIn requests as any agent may send them: a partition and a
\* statement some TransferStatement returned, or a statement for another
\* nonce, presented with any nonce
TransferInInputs(destination) ==
    UNION { { [partition |-> t.partition, nonce |-> n, statement |-> t.statement],
              [partition |-> t.partition, nonce |-> n,
               statement |-> TransferStatementBuild(RealmId, t.partition,
                                                    destination, n)] } :
            t \in issued_transfers, n \in 1..MaxNonce }

\* C17: a TransferIn that presents a nonce some TransferIn has succeeded
\* with, or a nonce other than the one the leader of the destination holds
\* as prepared, is answered InvalidNonce by that leader and changes
\* nothing; it succeeds at no HSM.
C17_NonceIsSingleUse ==
    \A d \in Groups : \A x \in TransferInInputs(d) :
        LET r == TransferInRequest(TransferHsm, d, x.partition, x.nonce,
                                   x.statement, RecordMapNew)
            used == \E a \in adopted : a.nonce = x.nonce
            other == IsLeader(TransferHsm, d)
                       => LeaderOf(TransferHsm, d).incoming # Some(x.nonce)
        IN (used \/ other) =>
              /\ r.response.result # "Ok"
              /\ IsLeader(TransferHsm, d) =>
                   r = Handled([result |-> "InvalidNonce"],
                               persistent[TransferHsm], volatile[TransferHsm])

\* a TransferIn has succeeded with a nonce, a later nonce is prepared at
\* the same destination, and the request with the first nonce is sent again
C17_Witness ==
    \E a \in adopted : \E t \in issued_transfers :
        /\ t.nonce = a.nonce /\ t.destination = a.destination
        /\ t.partition = a.partition
        /\ IsLeader(TransferHsm, a.destination)
        /\ IsSome(LeaderOf(TransferHsm, a.destination).incoming)
        /\ TransferInRequest(TransferHsm, a.destination, t.partition, t.nonce,
                             t.statement, RecordMapNew).response.result
              = "InvalidNonce"

\* the prefixes that stand for a range inside the range of `owned` that
\* touches neither of its ends: they continue `owned` with bits that are
\* neither all 0 nor all 1
MiddlePrefixes(owned) ==
    { q \in RecordIds :
        /\ StartsWith(q, owned)
        /\ \E j, k \in (Len(owned) + 1)..Len(q) : q[j] # q[k] }

\* the groups the HSM leads as owner of a partition
Sources == { g \in Groups : IsLeader(TransferHsm, g)
                              /\ IsSome(GroupTail(g).partition) }

\* the answer to a TransferOut for prefix with the index and the data of
\* the source's latest entry
TransferOutOf(source, destination, prefix) ==
    TransferOutRequest(TransferHsm, source, destination, prefix,
                       GroupTail(source).index, RecordMapNew)

\* C18 as stated: a TransferOut for a range inside the source's range that
\* is neither all of it nor at one of its ends is answered
\* UnacceptableRange and appends no entry.
C18_MiddleRangeUnacceptable ==
    \A source \in Sources : \A destination \in Groups \ {source} :
        \A q \in MiddlePrefixes(Unwrap(GroupTail(source).partition).prefix) :
            LET r == TransferOutOf(source, destination, q)
            IN /\ r.response.result = "UnacceptableRange"
               /\ r.v = volatile[TransferHsm]

\* what the handler does with such a range: NotOwner, and no entry appended
MiddleRangeNotOwner ==
    \A source \in Sources : \A destination \in Groups \ {source} :
        \A q \in MiddlePrefixes(Unwrap(GroupTail(source).partition).prefix) :
            TransferOutOf(source, destination, q)
               = Handled([result |-> "NotOwner"], persistent[TransferHsm],
                         volatile[TransferHsm])

\* C19: a TransferOut for exactly the prefix the source owns appends to the
\* source's log one entry that continues the latest one, owns no
\* partition, and is transferring out the partition the source owned.
C19_WholeRangeLeavesNone ==
    \A source \in Sources : \A destination \in Groups \ {source} :
        LET last == GroupTail(source)
            owned == Unwrap(last.partition)
            r == TransferOutOf(source, destination, owned.prefix)
            log == LeaderOf(TransferHsm, source).log
        IN RecordMapHash(RecordMapNew) = owned.hash =>
              /\ r.response.result = "Ok"
              /\ r.response.entry.index = last.index + 1
              /\ r.response.entry.prev_hmac = last.entry_hmac
              /\ r.response.entry.partition = None
              /\ r.response.entry.transferring_out
                    = Some([destination |-> destination, partition |-> owned,
                            at |-> last.index + 1])
              /\ MacCovers(source, r.response.entry)
              /\ Unwrap(r.v.leader[source]).log
                    = Append(log, [entry |-> r.response.entry, delta |-> None,
                                   response |-> None])

\* a group's latest entry owns nothing and is transferring out the
\* partition that the entry before it owned
C19_Witness ==
    \E g \in Groups :
        /\ IsLeader(TransferHsm, g)
        /\ LET log == LeaderOf(TransferHsm, g).log
           IN /\ Len(log) >= 2
              /\ log[Len(log)].entry.partition = None
              /\ IsSome(log[Len(log)].entry.transferring_out)
              /\ log[Len(log) - 1].entry.partition
                    = Some(Unwrap(log[Len(log)].entry.transferring_out).partition)

(***************************************************************************)
(* The coordinator's transfer procedure (src/cluster_core/src/             *)
(* transfer.rs).  The agents are its environment: an RPC is answered by    *)
(* any of the answers the procedure's match names, an Ok with any values.  *)
(***************************************************************************)
\* turns of the retry loop after which transfer() gives up (20 in the code)
MaxTries == 2

\* values an agent may return as PreparedTransferStatement
PreparedStatements == {"ps1", "ps2"}
\* values an agent may return as TransferStatement
TransferStatements == {"ts1", "ts2"}
\* values an agent may return as the Partition transferring
TransferPartitions == {"p1", "p2"}

Answers(results) == { [result |-> r] : r \in results }

\* lines 100-132
PrepareTransferResponses ==
    { [result |-> "Ok", nonce |-> n, statement |-> st] :
        n \in 1..MaxNonce, st \in PreparedStatements }
    \cup Answers({"InvalidRealm", "InvalidGroup", "OtherTransferPending",
                  "UnacceptableRange", "CommitTimeout", "NoStore", "NoHsm",
                  "NotLeader", "RpcError"})

\* lines 148-195
TransferOutResponses ==
    { [result |-> "Ok", transferring |-> p, statement |-> st] :
        p \in TransferPartitions, st \in TransferStatements }
    \cup Answers({"UnacceptableRange", "InvalidGroup", "OtherTransferPending",
                  "CommitTimeout", "NoStore", "NotOwner", "NoHsm", "NotLeader",
                  "InvalidProof", "InvalidRealm", "InvalidStatement", "RpcError"})

\* lines 211-247
TransferInResponses ==
    Answers({"Ok", "CommitTimeout", "NotPrepared", "InvalidStatement",
             "InvalidGroup", "InvalidRealm", "InvalidNonce", "NoStore", "NoHsm",
             "NotLeader", "NotOwner", "RpcError"})

\* lines 265-287
CompleteTransferResponses ==
    Answers({"Ok", "CommitTimeout", "NoHsm", "NotLeader", "InvalidRealm",
             "InvalidGroup", "NotTransferring", "RpcError"})

\* what a match arm does: go on to the next RPC, return from transfer(),
\* continue with the next turn of the loop, or panic
GoOn == [kind |-> "go on"]
Return(result) == [kind |-> "return", result |-> result]
Retry(error) == [kind |-> "retry", error |-> error]
Panic == [kind |-> "panic"]

\* a coordinator that goes round the loop on NoStore from PrepareTransfer
OnPrepareTransferRetryNoStore(result) ==
    CASE result = "Ok" -> GoOn
      [] result = "InvalidRealm" -> Panic
      [] result \in {"InvalidGroup", "OtherTransferPending", "UnacceptableRange",
                     "CommitTimeout"} -> Return(result)
      [] result \in {"NoHsm", "NotLeader"} -> Retry("NoDestinationLeader")
      [] OTHER -> Retry("RpcError")

\* lines 100-132: the arms of the match on the answer to PrepareTransfer
OnPrepareTransfer(result) ==
    CASE result = "Ok" -> GoOn
      [] result = "InvalidRealm" -> Panic
      [] result \in {"InvalidGroup", "OtherTransferPending", "UnacceptableRange",
                     "CommitTimeout", "NoStore"} -> Return(result)
      [] result \in {"NoHsm", "NotLeader"} -> Retry("NoDestinationLeader")
      [] OTHER -> Retry("RpcError")

\* lines 148-195: the arms of the match on the answer to TransferOut
OnTransferOut(result) ==
    CASE result = "Ok" -> GoOn
      [] result \in {"UnacceptableRange", "InvalidGroup", "OtherTransferPending",
                     "CommitTimeout", "NoStore"} -> Return(result)
      [] result \in {"NotOwner", "NoHsm", "NotLeader"} -> Retry("NoSourceLeader")
      [] result \in {"InvalidProof", "InvalidRealm", "InvalidStatement"} -> Panic
      [] OTHER -> Retry("RpcError")

\* a coordinator that takes every answer to TransferIn for Ok
OnTransferInAnyAnswer(result) == GoOn

\* lines 211-247: the arms of the match on the answer to TransferIn
OnTransferIn(result) ==
    CASE result = "Ok" -> GoOn
      [] result = "CommitTimeout" -> Return(result)
      [] result \in {"NotPrepared", "InvalidStatement", "InvalidGroup",
                     "InvalidRealm"} -> Panic
      [] result = "InvalidNonce" -> Retry("InvalidNonce")
      [] result = "NoStore" -> Retry("NoStore")
      [] result \in {"NoHsm", "NotLeader", "NotOwner"} -> Retry("NoDestinationLeader")
      [] OTHER -> Retry("RpcError")

\* lines 265-287: the arms of the match on the answer to CompleteTransfer
OnCompleteTransfer(result) ==
    CASE result \in {"Ok", "NotTransferring"} -> Return("Ok")
      [] result = "CommitTimeout" -> Return(result)
      [] result \in {"NoHsm", "NotLeader"} -> Retry("NoSourceLeader")
      [] result \in {"InvalidRealm", "InvalidGroup"} -> Panic
      [] OTHER -> Retry("RpcError")

\* transfer() is called for a source and a destination
CoordinatorNew(source, destination) ==
    [pc |-> "start", source |-> source, destination |-> destination,
     state |-> "Transferring", tries |-> 0, last_error |-> None,
     cancelable |-> FALSE, nonce |-> None, prepared_stmt |-> None,
     transferring_partition |-> None, transfer_stmt |-> None, result |-> None]

\* the locals of one turn of the loop go out of scope
WithoutLocals(c) ==
    [c EXCEPT !.nonce = None, !.prepared_stmt = None,
              !.transferring_partition = None, !.transfer_stmt = None]

\* transfer() ends; lines 305-315: the guard's drop cancels the prepared
\* transfer unless cancelable was set to false
Leave(c, result) ==
    [WithoutLocals(c) EXCEPT !.pc = IF c.cancelable THEN "cancel" ELSE "returned",
                             !.result = Some(result)]

\* the coordinator after the arm of a match: c holds what the arm set
After(c, outcome, next) ==
    CASE outcome.kind = "go on" -> [c EXCEPT !.pc = next]
      [] outcome.kind = "return" -> Leave(c, outcome.result)
      [] outcome.kind = "retry" ->
            [WithoutLocals(c) EXCEPT !.pc = "loop",
                                     !.last_error = Some(outcome.error)]
      [] OTHER -> Leave(c, "panic")

\* lines 100-132: the coordinator after the answer to PrepareTransfer
PrepareTransferAnswered(c, response) ==
    After(IF response.result = "Ok"
          THEN [c EXCEPT !.nonce = Some(response.nonce),
                         !.prepared_stmt = Some(response.statement)]
          ELSE c,
          OnPrepareTransfer(response.result), "transfer_out")

\* a guard that only an Ok of TransferOut disarms
StaysCancelableUnlessOk(result) == result # "Ok"

\* lines 153 and 165: prepare_guard.cancelable = false in the arms Ok and
\* CommitTimeout of TransferOut
StaysCancelable(result) == result \notin {"Ok", "CommitTimeout"}

\* lines 148-195: the coordinator after the answer to TransferOut
TransferOutAnswered(c, response) ==
    LET g == [c EXCEPT !.cancelable = @ /\ StaysCancelable(response.result)]
    IN After(IF response.result = "Ok"
             THEN [g EXCEPT !.transferring_partition = Some(response.transferring),
                            !.transfer_stmt = Some(response.statement)]
             ELSE g,
             OnTransferOut(response.result), "transfer_in")

\* lines 211-247: the coordinator after the answer to TransferIn
TransferInAnswered(c, response) ==
    LET outcome == OnTransferIn(response.result)
    IN After(IF outcome.kind = "go on"
             THEN [WithoutLocals(c) EXCEPT !.state = "Completing"]
             ELSE c,
             outcome, "complete")

\* lines 265-287: the coordinator after the answer to CompleteTransfer
CompleteTransferAnswered(c, response) ==
    After(c, OnCompleteTransfer(response.result), "complete")

Sent(rpc, request, response) ==
    rpcs' = Append(rpcs, [rpc |-> rpc, request |-> request, response |-> response])

\* lines 34-54: the check of the request, the guard, the initial state
CoordStart ==
    /\ coordinator # None
    /\ coordinator.pc = "start"
    /\ coordinator' =
          IF coordinator.source = coordinator.destination
          THEN [coordinator EXCEPT !.pc = "returned", !.result = Some("InvalidGroup")]
          ELSE [coordinator EXCEPT !.pc = "loop", !.cancelable = TRUE]
    /\ UNCHANGED <<rpcs, storeVars, hsmVars>>

\* a loop that gives up one turn later
ExhaustedLate(tries) == tries > MaxTries + 1

\* line 58: if tries > 20, with MaxTries for 20
Exhausted(tries) == tries > MaxTries

\* lines 56-75: the head of the loop; found tells which leaders
\* find_leaders has found
CoordLoop(found) ==
    /\ coordinator # None
    /\ coordinator.pc = "loop"
    /\ LET c == [coordinator EXCEPT !.tries = @ + 1]
       IN coordinator' =
             IF Exhausted(c.tries)
             THEN Leave(c, IF IsSome(c.last_error) THEN Unwrap(c.last_error)
                           ELSE "TooManyRetries")
             ELSE IF "source" \notin found
             THEN [c EXCEPT !.last_error = Some("NoSourceLeader")]
             ELSE IF "destination" \notin found
             THEN [c EXCEPT !.last_error = Some("NoDestinationLeader")]
             ELSE [c EXCEPT !.pc = IF c.state = "Transferring" THEN "prepare"
                                   ELSE "complete"]
    /\ UNCHANGED <<rpcs, storeVars, hsmVars>>

\* lines 88-132: PrepareTransfer to the leader of the destination
CoordPrepareTransfer(response) ==
    /\ coordinator # None
    /\ coordinator.pc = "prepare"
    /\ Sent("PrepareTransfer",
            [source |-> coordinator.source, destination |-> coordinator.destination],
            response)
    /\ coordinator' = PrepareTransferAnswered(coordinator, response)
    /\ UNCHANGED <<storeVars, hsmVars>>

\* lines 134-195: TransferOut to the leader of the source
CoordTransferOut(response) ==
    /\ coordinator # None
    /\ coordinator.pc = "transfer_out"
    /\ Sent("TransferOut",
            [source |-> coordinator.source, destination |-> coordinator.destination,
             nonce |-> Unwrap(coordinator.nonce),
             statement |-> Unwrap(coordinator.prepared_stmt)],
            response)
    /\ coordinator' = TransferOutAnswered(coordinator, response)
    /\ UNCHANGED <<storeVars, hsmVars>>

\* lines 197-247: TransferIn to the leader of the destination
CoordTransferIn(response) ==
    /\ coordinator # None
    /\ coordinator.pc = "transfer_in"
    /\ Sent("TransferIn",
            [source |-> coordinator.source, destination |-> coordinator.destination,
             transferring |-> Unwrap(coordinator.transferring_partition),
             nonce |-> Unwrap(coordinator.nonce),
             statement |-> Unwrap(coordinator.transfer_stmt)],
            response)
    /\ coordinator' = TransferInAnswered(coordinator, response)
    /\ UNCHANGED <<storeVars, hsmVars>>

\* lines 250-288: CompleteTransfer to the leader of the source
CoordCompleteTransfer(response) ==
    /\ coordinator # None
    /\ coordinator.pc = "complete"
    /\ Sent("CompleteTransfer",
            [source |-> coordinator.source, destination |-> coordinator.destination],
            response)
    /\ coordinator' = CompleteTransferAnswered(coordinator, response)
    /\ UNCHANGED <<storeVars, hsmVars>>

\* lines 317-351: cancel_prepared_transfer, run by the guard's drop; its
\* answer is logged and nothing else
CoordCancel(found) ==
    /\ coordinator # None
    /\ coordinator.pc = "cancel"
    /\ rpcs' = IF "destination" \in found
               THEN Append(rpcs, [rpc |-> "CancelPreparedTransfer",
                                  request |-> [source |-> coordinator.source,
                                               destination |-> coordinator.destination],
                                  response |-> [result |-> "any"]])
               ELSE rpcs
    /\ coordinator' = [coordinator EXCEPT !.pc = "returned"]
    /\ UNCHANGED <<storeVars, hsmVars>>

InitCoordinator ==
    /\ \E source \in Groups, destination \in Groups :
          coordinator = CoordinatorNew(source, destination)
    /\ rpcs = <<>>
    /\ log_rows = {}
    /\ merkle_rows = {}
    /\ remove_tasks = {}
    /\ last_write = [c \in Clients |-> None]
    /\ client_pc = [c \in Clients |-> "idle"]
    /\ client_req = [c \in Clients |-> None]
    /\ client_result = [c \in Clients |-> "none"]
    /\ persistent = [h \in HsmIds |-> HsmNewPersistent]
    /\ volatile = [h \in HsmIds |-> HsmNewVolatile]
    /\ nvram = persistent
    /\ stepping_down = NoneOfGroups
    /\ next_nonce = 1
    /\ issued_entries = {}
    /\ issued_captures = {}
    /\ issued_transfers = {}
    /\ appointed = NoneOfGroups
    /\ adopted = {}

NextCoordinator ==
    \/ CoordStart
    \/ \E found \in SUBSET {"source", "destination"} : CoordLoop(found)
    \/ \E response \in PrepareTransferResponses : CoordPrepareTransfer(response)
    \/ \E response \in TransferOutResponses : CoordTransferOut(response)
    \/ \E response \in TransferInResponses : CoordTransferIn(response)
    \/ \E response \in CompleteTransferResponses : CoordCompleteTransfer(response)
    \/ \E found \in SUBSET {"source", "destination"} : CoordCancel(found)

SpecCoordinator == InitCoordinator /\ [][NextCoordinator]_vars

\* the position in rpcs of the last RPC of that name before position i,
\* 0 if there is none
LastBefore(i, rpc) ==
    LET js == { j \in 1..(i - 1) : rpcs[j].rpc = rpc }
    IN IF js = {} THEN 0 ELSE CHOOSE j \in js : \A k \in js : k <= j

\* C20: a TransferOut is sent only when the last PrepareTransfer before it
\* was answered Ok, and it carries the nonce and the statement of that
\* answer; a TransferIn only when the last TransferOut before it was
\* answered Ok, and it carries the partition and the statement of that
\* answer; a CompleteTransfer only after a TransferIn was answered Ok.
C20_TransferRpcOrder ==
    \A i \in 1..Len(rpcs) :
        /\ rpcs[i].rpc = "TransferOut" =>
              LET j == LastBefore(i, "PrepareTransfer")
              IN /\ j > 0
                 /\ rpcs[j].response.result = "Ok"
                 /\ rpcs[i].request.nonce = rpcs[j].response.nonce
                 /\ rpcs[i].request.statement = rpcs[j].response.statement
        /\ rpcs[i].rpc = "TransferIn" =>
              LET j == LastBefore(i, "TransferOut")
              IN /\ j > 0
                 /\ rpcs[j].response.result = "Ok"
                 /\ rpcs[i].request.transferring = rpcs[j].response.transferring
                 /\ rpcs[i].request.statement = rpcs[j].response.statement
        /\ rpcs[i].rpc = "CompleteTransfer" =>
              \E j \in 1..(i - 1) :
                 rpcs[j].rpc = "TransferIn" /\ rpcs[j].response.result = "Ok"

\* transfer() has gone through all four RPCs in a second turn of its loop,
\* after a first turn whose TransferIn was refused, with another nonce
C20_Witness ==
    /\ Len(rpcs) = 7
    /\ rpcs[1].rpc = "PrepareTransfer" /\ rpcs[1].response.result = "Ok"
    /\ rpcs[2].rpc = "TransferOut"
    /\ rpcs[3].rpc = "TransferIn" /\ rpcs[3].response.result = "InvalidNonce"
    /\ rpcs[4].rpc = "PrepareTransfer" /\ rpcs[4].response.result = "Ok"
    /\ rpcs[4].response.nonce # rpcs[1].response.nonce
    /\ rpcs[5].rpc = "TransferOut"
    /\ rpcs[5].request.nonce # rpcs[2].request.nonce
    /\ rpcs[6].rpc = "TransferIn" /\ rpcs[6].response.result = "Ok"
    /\ rpcs[7].rpc = "CompleteTransfer"

\* the log of RPCs holds a CancelPreparedTransfer
CancelSent == \E i \in 1..Len(rpcs) : rpcs[i].rpc = "CancelPreparedTransfer"

\* a TransferOut has been answered Ok or CommitTimeout
TransferOutPassed ==
    \E i \in 1..Len(rpcs) :
        /\ rpcs[i].rpc = "TransferOut"
        /\ rpcs[i].response.result \in {"Ok", "CommitTimeout"}

\* transfer() has ended, the drop of its guard included
Ended == coordinator.pc = "returned"

\* C21 as stated: when transfer() has ended, a CancelPreparedTransfer has
\* been sent if and only if no TransferOut was answered Ok or
\* CommitTimeout.
C21_CancelIffBeforeTransferOut ==
    Ended => (CancelSent <=> ~TransferOutPassed)

\* C21, amended: cancel_prepared_transfer runs when transfer() ends, and
\* only then, if and only if source and destination differ and no
\* TransferOut was answered Ok or CommitTimeout; it sends
\* CancelPreparedTransfer, as the last RPC, if it finds the leader of the
\* destination, and nothing otherwise.  After a TransferOut answered Ok or
\* CommitTimeout no CancelPreparedTransfer is sent.
C21_CancelAttemptedIffBeforeTransferOut ==
    /\ [](CancelSent =>
            /\ ~TransferOutPassed
            /\ coordinator.source # coordinator.destination
            /\ Ended
            /\ rpcs[Len(rpcs)].rpc = "CancelPreparedTransfer"
            /\ \A i \in 1..(Len(rpcs) - 1) : rpcs[i].rpc # "CancelPreparedTransfer")
    /\ [][(coordinator.pc \notin {"cancel", "returned"}
           /\ coordinator'.pc \in {"cancel", "returned"})
          => (coordinator'.pc = "cancel"
                <=> (coordinator.source # coordinator.destination
                     /\ ~TransferOutPassed'))]_vars
    /\ [][rpcs' # rpcs /\ CancelSent' => coordinator.pc = "cancel"]_vars
    /\ [][coordinator.pc = "cancel" =>
             (coordinator'.pc = "returned"
              /\ (rpcs' = rpcs \/ (CancelSent' /\ Len(rpcs') = Len(rpcs) + 1)))]_vars

\* transfer() has ended after a PrepareTransfer answered Ok and a
\* TransferOut refused, and the prepared transfer has been cancelled
C21_Witness ==
    /\ Ended
    /\ CancelSent
    /\ \E i, j \in 1..Len(rpcs) :
          /\ rpcs[i].rpc = "PrepareTransfer" /\ rpcs[i].response.result = "Ok"
          /\ rpcs[j].rpc = "TransferOut"
          /\ rpcs[j].response.result = "OtherTransferPending"

\* transfer() as a task that its runtime keeps polling: every RPC, sleep
\* and find_leaders comes back, with an answer or with an error
SpecCoordinatorFair == SpecCoordinator /\ WF_vars(NextCoordinator)

\* the procedure is inside a turn of its loop, past the check of tries
InAttempt ==
    coordinator.pc \in {"prepare", "transfer_out", "transfer_in", "complete"}

\* C22: transfer() always ends; it is inside at most MaxTries turns of its
\* loop (20 in the code), and the turn after the last one returns the
\* error the last turn left in last_error.
C22_TerminatesWithinMaxTries ==
    /\ <>Ended
    /\ [](coordinator.tries <= MaxTries + 1)
    /\ [](InAttempt => coordinator.tries <= MaxTries)
    /\ [][(coordinator.pc = "loop" /\ coordinator.tries >= MaxTries)
          => /\ coordinator'.pc \in {"cancel", "returned"}
             /\ IsSome(coordinator.last_error)
             /\ coordinator'.result = coordinator.last_error]_vars
    /\ [][(rpcs' # rpcs /\ coordinator'.pc = "loop")
          => /\ IsSome(coordinator'.last_error)
             /\ Unwrap(coordinator'.last_error) \in
                   {"NoSourceLeader", "NoDestinationLeader", "RpcError",
                    "InvalidNonce", "NoStore"}]_vars

\* after MaxTries turns, the last of which had its TransferIn answered
\* InvalidNonce, transfer() has returned InvalidNonce
C22_Witness ==
    /\ Ended
    /\ coordinator.tries = MaxTries + 1
    /\ coordinator.result = Some("InvalidNonce")
    /\ Len(rpcs) > 0
    /\ rpcs[Len(rpcs)].rpc = "TransferIn"
    /\ rpcs[Len(rpcs)].response.result = "InvalidNonce"

\* the RPC of transfer() answered in this step, if one was
Answered(rpc, results) ==
    /\ Len(rpcs') = Len(rpcs) + 1
    /\ rpcs'[Len(rpcs')].rpc = rpc
    /\ rpcs'[Len(rpcs')].response.result \in results

TransferRpcs == {"PrepareTransfer", "TransferOut", "TransferIn", "CompleteTransfer"}

\* transfer() ends in this step with the result of the RPC just answered
EndsWithAnswer ==
    /\ coordinator'.pc \in {"cancel", "returned"}
    /\ coordinator'.result = Some(rpcs'[Len(rpcs')].response.result)

\* transfer() goes to the next turn of its loop
GoesRound == coordinator'.pc = "loop" /\ IsSome(coordinator'.last_error)

TerminalErrors ==
    {"InvalidGroup", "UnacceptableRange", "OtherTransferPending", "CommitTimeout"}

\* every answer but Ok that the model gives to an RPC of transfer()
ErrorAnswers ==
    {"InvalidRealm", "InvalidGroup", "OtherTransferPending", "UnacceptableRange",
     "CommitTimeout", "NoStore", "NoHsm", "NotLeader", "NotOwner", "InvalidProof",
     "InvalidStatement", "NotPrepared", "InvalidNonce", "NotTransferring",
     "RpcError"}

\* C23 as stated: an answer that is one of the four terminal errors ends
\* transfer() with that error, every other error leads to another turn of
\* the loop.
C23_RetryUnlessTerminal ==
    [][\A rpc \in TransferRpcs :
          /\ Answered(rpc, TerminalErrors) => EndsWithAnswer
          /\ Answered(rpc, ErrorAnswers \ TerminalErrors) => GoesRound]_vars

\* C23, amended: PrepareTransfer and TransferOut end transfer() with the
\* error they answer when it is InvalidGroup, UnacceptableRange,
\* OtherTransferPending, CommitTimeout or NoStore; TransferIn and
\* CompleteTransfer when it is CommitTimeout.  NotTransferring from
\* CompleteTransfer ends it with success.  The answers the coordinator
\* holds impossible end it with a panic.  Every other error leads to the
\* next turn of the loop.
C23_RetryUnlessTerminalOfStep ==
    [][/\ \A rpc \in {"PrepareTransfer", "TransferOut"} :
            /\ Answered(rpc, TerminalErrors \cup {"NoStore"}) => EndsWithAnswer
            /\ Answered(rpc, {"NoHsm", "NotLeader", "NotOwner", "RpcError"})
                  => GoesRound
       /\ \A rpc \in {"TransferIn", "CompleteTransfer"} :
            /\ Answered(rpc, {"CommitTimeout"}) => EndsWithAnswer
            /\ Answered(rpc, {"NoHsm", "NotLeader", "NotOwner", "RpcError",
                              "InvalidNonce", "NoStore"}) => GoesRound
       /\ Answered("CompleteTransfer", {"NotTransferring"})
            => (coordinator'.pc = "returned" /\ coordinator'.result = Some("Ok"))
       /\ (\/ Answered("PrepareTransfer", {"InvalidRealm"})
           \/ Answered("TransferOut",
                       {"InvalidProof", "InvalidRealm", "InvalidStatement"})
           \/ Answered("TransferIn", {"NotPrepared", "InvalidStatement",
                                      "InvalidGroup", "InvalidRealm"})
           \/ Answered("CompleteTransfer", {"InvalidRealm", "InvalidGroup"}))
            => (coordinator'.pc \in {"cancel", "returned"}
                /\ coordinator'.result = Some("panic"))]_vars

\* a PrepareTransfer answered NotLeader led to a second turn, whose
\* TransferOut answered NoStore, and transfer() has ended with NoStore
C23_Witness ==
    /\ Len(rpcs) >= 3
    /\ rpcs[1].rpc = "PrepareTransfer" /\ rpcs[1].response.result = "NotLeader"
    /\ rpcs[2].rpc = "PrepareTransfer" /\ rpcs[2].response.result = "Ok"
    /\ rpcs[3].rpc = "TransferOut" /\ rpcs[3].response.result = "NoStore"
    /\ coordinator.tries = 2
    /\ coordinator.result = Some("NoStore")

\* C24: a CompleteTransfer sent to the leader of a source whose latest
\* entry is transferring nothing out is answered NotTransferring, appends
\* no entry and leaves the HSM as it was, and the coordinator returns
\* success on that answer.
C24_CompleteTransferIdempotent ==
    \A source \in Groups :
        (IsLeader(TransferHsm, source)
         /\ GroupTail(source).transferring_out = None)
        => /\ \A destination \in Groups, prefix \in TransferPrefixes :
                 CompleteTransferRequest(TransferHsm, source, destination, prefix)
                    = Handled([result |-> "NotTransferring"],
                              persistent[TransferHsm], volatile[TransferHsm])
           /\ OnCompleteTransfer("NotTransferring") = Return("Ok")

\* a transfer out of a group has been completed: the entry before the
\* latest one was transferring out, the latest one is not
C24_Witness ==
    \E g \in Groups :
        /\ IsLeader(TransferHsm, g)
        /\ LET log == LeaderOf(TransferHsm, g).log
           IN /\ Len(log) >= 2
              /\ IsSome(log[Len(log) - 1].entry.transferring_out)
              /\ log[Len(log)].entry.transferring_out = None

(***************************************************************************)
(* SpecReinvoke: transfer() run against the HSM of SpecTransfer, which     *)
(* leads the source gA and, once created, the destination gB.  The agents  *)
(* between the two are modelled from the specification: an agent hands the *)
(* coordinator's request to its HSM, waits for the entry the HSM appended  *)
(* to commit, and answers CommitTimeout when it gave up waiting.           *)
(* PrepareTransfer is the HSM's TransferNonce; TransferOut is the HSM's    *)
(* TransferOut followed, once the entry has committed, by                  *)
(* TransferStatement.  One wait times out; transfer() is then called again *)
(* for the same source, destination and prefix.                            *)
(***************************************************************************)
\* the prefix the transfer is for: a half of what gA owns
TransferredPrefix == <<0>>

\* find_leaders: the groups of the transfer that have a leader
LeadersFound ==
    { x \in {"source"} : IsLeader(TransferHsm, coordinator.source) }
    \cup { x \in {"destination"} : IsLeader(TransferHsm, coordinator.destination) }

\* the latest entry of the group is committed
TailCommitted(group) ==
    CommitIndex(LeaderOf(TransferHsm, group)) >= GroupTail(group).index

\* an agent has answered CommitTimeout
TimedOut ==
    \E i \in 1..Len(rpcs) : rpcs[i].response.result = "CommitTimeout"

RpcPrepareTransfer ==
    LET c == coordinator
        handled == TransferNonceRequest(TransferHsm, c.destination, next_nonce)
        response == IF handled.response.result = "Ok"
                    THEN [result |-> "Ok", nonce |-> handled.response.nonce,
                          statement |-> CHOOSE st \in PreparedStatements : TRUE]
                    ELSE handled.response
    IN /\ c # None
       /\ c.pc = "prepare"
       /\ next_nonce <= MaxNonce + MaxTries
       /\ Apply(TransferHsm, handled)
       /\ next_nonce' = next_nonce + 1
       /\ Sent("PrepareTransfer",
               [source |-> c.source, destination |-> c.destination], response)
       /\ coordinator' = PrepareTransferAnswered(c, response)
       /\ UNCHANGED <<stepping_down, issued_entries, issued_captures,
                      issued_transfers, appointed, adopted>>
       /\ UNCHANGED storeVars

\* the source's HSM handles TransferOut; when it appends an entry the agent
\* waits for it to commit, otherwise it answers at once
RpcTransferOut ==
    LET c == coordinator
        handled == TransferOutRequest(TransferHsm, c.source, c.destination,
                      TransferredPrefix, GroupTail(c.source).index, RecordMapNew)
        ok == handled.response.result = "Ok"
    IN /\ c # None
       /\ c.pc = "transfer_out"
       /\ ok => CanAppend(TransferHsm, c.source)
       /\ Apply(TransferHsm, handled)
       /\ issued_entries' = IF ok
                            THEN issued_entries \cup
                                   {[group |-> c.source,
                                     entry |-> handled.response.entry]}
                            ELSE issued_entries
       /\ rpcs' = IF ok THEN rpcs
                  ELSE Append(rpcs, [rpc |-> "TransferOut",
                                     request |-> [source |-> c.source,
                                                  destination |-> c.destination,
                                                  nonce |-> Unwrap(c.nonce),
                                                  statement |-> Unwrap(c.prepared_stmt)],
                                     response |-> [result |-> handled.response.result]])
       /\ coordinator' = IF ok THEN [c EXCEPT !.pc = "transfer_out_wait"]
                         ELSE TransferOutAnswered(c, [result |-> handled.response.result])
       /\ UNCHANGED <<stepping_down, next_nonce, issued_captures,
                      issued_transfers, appointed, adopted>>
       /\ UNCHANGED storeVars

\* the transferring_out entry has committed: the agent asks the HSM for the
\* statement for the coordinator's nonce and answers Ok
RpcTransferOutCommitted ==
    LET c == coordinator
        handled == TransferStatementRequest(TransferHsm, c.source, c.destination,
                                            Unwrap(c.nonce))
        partition == Unwrap(GroupTail(c.source).transferring_out).partition
        response == [result |-> "Ok", transferring |-> partition,
                     statement |-> handled.response.statement]
    IN /\ c # None
       /\ c.pc = "transfer_out_wait"
       /\ TailCommitted(c.source)
       /\ handled.response.result = "Ok"
       /\ Apply(TransferHsm, handled)
       /\ issued_transfers' = issued_transfers \cup
             {[statement |-> handled.response.statement, partition |-> partition,
               source |-> c.source, destination |-> c.destination,
               nonce |-> Unwrap(c.nonce)]}
       /\ Sent("TransferOut",
               [source |-> c.source, destination |-> c.destination,
                nonce |-> Unwrap(c.nonce), statement |-> Unwrap(c.prepared_stmt)],
               response)
       /\ coordinator' = TransferOutAnswered([c EXCEPT !.pc = "transfer_out"], response)
       /\ UNCHANGED <<stepping_down, next_nonce, issued_entries, issued_captures,
                      appointed, adopted>>
       /\ UNCHANGED storeVars

\* the destination's HSM handles TransferIn
RpcTransferIn ==
    LET c == coordinator
        partition == Unwrap(c.transferring_partition)
        handled == TransferInRequest(TransferHsm, c.destination, partition,
                      Unwrap(c.nonce), Unwrap(c.transfer_stmt), RecordMapNew)
        ok == handled.response.result = "Ok"
        request == [source |-> c.source, destination |-> c.destination,
                    transferring |-> partition, nonce |-> Unwrap(c.nonce),
                    statement |-> Unwrap(c.transfer_stmt)]
    IN /\ c # None
       /\ c.pc = "transfer_in"
       /\ ok => CanAppend(TransferHsm, c.destination)
       /\ Apply(TransferHsm, handled)
       /\ issued_entries' = IF ok
                            THEN issued_entries \cup
                                   {[group |-> c.destination,
                                     entry |-> handled.response.entry]}
                            ELSE issued_entries
       /\ adopted' = IF ok
                     THEN adopted \cup {[destination |-> c.destination,
                                         partition |-> partition,
                                         nonce |-> Unwrap(c.nonce)]}
                     ELSE adopted
       /\ rpcs' = IF ok THEN rpcs
                  ELSE Append(rpcs, [rpc |-> "TransferIn", request |-> request,
                                     response |-> [result |-> handled.response.result]])
       /\ coordinator' = IF ok THEN [c EXCEPT !.pc = "transfer_in_wait"]
                         ELSE TransferInAnswered(c, [result |-> handled.response.result])
       /\ UNCHANGED <<stepping_down, next_nonce, issued_captures,
                      issued_transfers, appointed>>
       /\ UNCHANGED storeVars

\* the source's HSM handles CompleteTransfer
RpcCompleteTransfer ==
    LET c == coordinator
        handled == CompleteTransferRequest(TransferHsm, c.source, c.destination,
                                           TransferredPrefix)
        ok == handled.response.result = "Ok"
    IN /\ c # None
       /\ c.pc = "complete"
       /\ ok => CanAppend(TransferHsm, c.source)
       /\ Apply(TransferHsm, handled)
       /\ issued_entries' = IF ok
                            THEN issued_entries \cup
                                   {[group |-> c.source,
                                     entry |-> handled.response.entry]}
                            ELSE issued_entries
       /\ rpcs' = IF ok THEN rpcs
                  ELSE Append(rpcs, [rpc |-> "CompleteTransfer",
                                     request |-> [source |-> c.source,
                                                  destination |-> c.destination],
                                     response |-> [result |-> handled.response.result]])
       /\ coordinator' = IF ok THEN [c EXCEPT !.pc = "complete_wait"]
                         ELSE CompleteTransferAnswered(c,
                                 [result |-> handled.response.result])
       /\ UNCHANGED <<stepping_down, next_nonce, issued_captures,
                      issued_transfers, appointed, adopted>>
       /\ UNCHANGED storeVars

\* the entry of TransferIn or of CompleteTransfer has committed: the agent
\* answers Ok
RpcCommitted ==
    LET c == coordinator
    IN /\ c # None
       /\ \/ /\ c.pc = "transfer_in_wait"
             /\ TailCommitted(c.destination)
             /\ Sent("TransferIn",
                     [source |-> c.source, destination |-> c.destination,
                      transferring |-> Unwrap(c.transferring_partition),
                      nonce |-> Unwrap(c.nonce),
                      statement |-> Unwrap(c.transfer_stmt)],
                     [result |-> "Ok"])
             /\ coordinator' = TransferInAnswered([c EXCEPT !.pc = "transfer_in"],
                                                  [result |-> "Ok"])
          \/ /\ c.pc = "complete_wait"
             /\ TailCommitted(c.source)
             /\ Sent("CompleteTransfer",
                     [source |-> c.source, destination |-> c.destination],
                     [result |-> "Ok"])
             /\ coordinator' = CompleteTransferAnswered([c EXCEPT !.pc = "complete"],
                                                        [result |-> "Ok"])
       /\ UNCHANGED <<storeVars, hsmVars>>

\* the agent gives up waiting for the commit and answers CommitTimeout;
\* the model lets one wait time out
RpcCommitTimeout ==
    LET c == coordinator
        timeout == [result |-> "CommitTimeout"]
    IN /\ c # None
       /\ ~TimedOut
       /\ \/ /\ c.pc = "transfer_out_wait"
             /\ Sent("TransferOut",
                     [source |-> c.source, destination |-> c.destination,
                      nonce |-> Unwrap(c.nonce),
                      statement |-> Unwrap(c.prepared_stmt)], timeout)
             /\ coordinator' = TransferOutAnswered([c EXCEPT !.pc = "transfer_out"],
                                                   timeout)
          \/ /\ c.pc = "transfer_in_wait"
             /\ Sent("TransferIn",
                     [source |-> c.source, destination |-> c.destination,
                      transferring |-> Unwrap(c.transferring_partition),
                      nonce |-> Unwrap(c.nonce),
                      statement |-> Unwrap(c.transfer_stmt)], timeout)
             /\ coordinator' = TransferInAnswered([c EXCEPT !.pc = "transfer_in"],
                                                  timeout)
          \/ /\ c.pc = "complete_wait"
             /\ Sent("CompleteTransfer",
                     [source |-> c.source, destination |-> c.destination], timeout)
             /\ coordinator' = CompleteTransferAnswered([c EXCEPT !.pc = "complete"],
                                                        timeout)
       /\ UNCHANGED <<storeVars, hsmVars>>

\* the source's log holds a committed entry that is transferring out
TransferringOutCommitted(source) ==
    \E e \in EntriesOf(source) :
        /\ IsSome(e.transferring_out)
        /\ e.index <= CommitIndex(LeaderOf(TransferHsm, source))

\* transfer() has returned CommitTimeout and the source's transferring_out
\* entry has committed: transfer() is called again for the same transfer
Reinvoke ==
    /\ coordinator # None
    /\ coordinator.pc = "returned"
    /\ coordinator.result = Some("CommitTimeout")
    /\ TransferringOutCommitted(coordinator.source)
    /\ coordinator' = CoordinatorNew(coordinator.source, coordinator.destination)
    /\ UNCHANGED <<rpcs, storeVars, hsmVars>>

InitReinvoke ==
    /\ persistent = [h \in HsmIds |->
          IF h = TransferHsm THEN TransferRealm.p ELSE HsmNewPersistent]
    /\ volatile = [h \in HsmIds |->
          IF h = TransferHsm THEN TransferRealm.v ELSE HsmNewVolatile]
    /\ nvram = persistent
    /\ stepping_down = NoneOfGroups
    /\ next_nonce = 1
    /\ issued_entries = {[group |-> "gA", entry |-> TransferRealm.response.entry]}
    /\ issued_captures = {}
    /\ issued_transfers = {}
    /\ appointed = NoneOfGroups
    /\ adopted = {}
    /\ log_rows = {}
    /\ merkle_rows = {}
    /\ remove_tasks = {}
    /\ last_write = [c \in Clients |-> None]
    /\ client_pc = [c \in Clients |-> "idle"]
    /\ client_req = [c \in Clients |-> None]
    /\ client_result = [c \in Clients |-> "none"]
    /\ coordinator = CoordinatorNew("gA", "gB")
    /\ rpcs = <<>>

NextReinvoke ==
    \/ NewGroup(TransferHsm, TransferConfiguration, "gB")
    \/ \E g \in Groups : \E e \in EntriesOf(g) : CaptureNext(TransferHsm, g, e)
    \/ \E g \in Groups : \E e \in EntriesOf(g) :
          Commit(TransferHsm, g, e.index, e.entry_hmac, <<>>)
    \/ CoordStart
    \/ CoordLoop(LeadersFound)
    \/ RpcPrepareTransfer
    \/ RpcTransferOut
    \/ RpcTransferOutCommitted
    \/ RpcTransferIn
    \/ RpcCompleteTransfer
    \/ RpcCommitted
    \/ RpcCommitTimeout
    \/ CoordCancel(LeadersFound)
    \/ Reinvoke

SpecReinvoke == InitReinvoke /\ [][NextReinvoke]_vars

\* the second call of transfer() has ended
ReinvokedEnded ==
    /\ coordinator.pc = "returned"
    /\ TimedOut
    /\ coordinator.result # Some("CommitTimeout")

\* the transfer is completed: the destination owns the prefix, the source
\* is transferring nothing out, and no record is owned by both
TransferCompleted ==
    /\ IsSome(GroupTail("gB").partition)
    /\ Unwrap(GroupTail("gB").partition).prefix = TransferredPrefix
    /\ GroupTail("gA").transferring_out = None
    /\ \A rid \in RecordIds : ~(Owns("gA", rid) /\ Owns("gB", rid))

\* C25: when the transfer() called again after a CommitTimeout at or after
\* TransferOut, whose transferring_out entry has committed, has ended, it
\* has returned success and the transfer is completed.
C25_ReinvokedTransferCompletes ==
    ReinvokedEnded => (coordinator.result = Some("Ok") /\ TransferCompleted)

\* the index at which the HSM is stepping down
StepdownIndex(hsm) == Unwrap(stepping_down[hsm][SpecGroup])

\* C26: a leader that is stepping down at index s stays leader with s as
\* the index of its latest entry while its commit index is below s,
\* answers Commit as a leader does, and its leader slot is released in the
\* step in which its commit index reaches s: at once when s is committed
\* already, otherwise by the Commit that commits s.
C26_StepDownAtTail ==
    /\ [](\A h \in Running :
            SteppingDown(h, SpecGroup) =>
               /\ IsLeader(h, SpecGroup)
               /\ LastEntry(LeaderOf(h, SpecGroup)).index = StepdownIndex(h)
               /\ CommitIndex(LeaderOf(h, SpecGroup)) < StepdownIndex(h)
               /\ \A e \in EntriesOf(SpecGroup) :
                     CommitRequest(h, SpecGroup, e.index, e.entry_hmac, <<>>)
                        .response.result # "NotLeader")
    /\ [][\A h \in Running :
            /\ (SteppingDown(h, SpecGroup) /\ IsLeader(h, SpecGroup)'
                /\ volatile'[h] # volatile[h])
                  => /\ SteppingDown(h, SpecGroup)'
                     /\ StepdownIndex(h)' = StepdownIndex(h)
                     /\ LastEntry(LeaderOf(h, SpecGroup)')
                           = LastEntry(LeaderOf(h, SpecGroup))
                     /\ CommitIndex(LeaderOf(h, SpecGroup)') >
                           CommitIndex(LeaderOf(h, SpecGroup))
            /\ (SteppingDown(h, SpecGroup) /\ ~IsLeader(h, SpecGroup)')
                  => \E e \in EntriesOf(SpecGroup) :
                        \E captures \in SeqsUpTo(CapturesFor(SpecGroup, e.index,
                                                             e.entry_hmac),
                                                 MaxCaptures) :
                           LET r == CommitRequest(h, SpecGroup, e.index,
                                                  e.entry_hmac, captures)
                           IN /\ r.response.result = "Ok"
                              /\ CommitIndex(Unwrap(r.v.leader[SpecGroup]))
                                    >= StepdownIndex(h)
                              /\ volatile'[h] = ReleaseLeader(r.v, SpecGroup)
            /\ (~SteppingDown(h, SpecGroup) /\ SteppingDown(h, SpecGroup)')
                  => /\ IsLeader(h, SpecGroup)
                     /\ StepdownIndex(h)' = LastEntry(LeaderOf(h, SpecGroup)).index
                     /\ volatile'[h] = volatile[h]
            /\ (~SteppingDown(h, SpecGroup) /\ ~SteppingDown(h, SpecGroup)'
                /\ IsLeader(h, SpecGroup) /\ ~IsLeader(h, SpecGroup)')
                  => CommitIndex(LeaderOf(h, SpecGroup))
                        >= LastEntry(LeaderOf(h, SpecGroup)).index]_vars

\* an HSM is stepping down at index 3 with index 2 committed: a Commit was
\* handled after the stepdown was accepted and the HSM still leads
C26_Witness ==
    \E h \in Running :
        /\ SteppingDown(h, SpecGroup)
        /\ StepdownIndex(h) = 3
        /\ CommitIndex(LeaderOf(h, SpecGroup)) = 2
        /\ \E x \in (Running \ {h}) : ~IsLeader(x, SpecGroup)
                                      /\ CapturedIndex(persistent[x], SpecGroup) = 3

(***************************************************************************)
(* SpecHandover: the cluster manager's stepdown (cluster/stepdown.rs) over *)
(* the group of Spec with its three HSMs running.  Leaders are made by the *)
(* manager only.  The agent's part (StepDown answered once the stepdown is *)
(* complete) and assign_group_a_leader (BecomeLeader with the last index,  *)
(* sent to the other members one after another until one accepts) are     *)
(* modelled from the specification.                                        *)
(***************************************************************************)
HandoverHsms == HsmIds

ManagerIdle ==
    [pc |-> "idle", request |-> None, before |-> {}, targets |-> <<>>,
     todo |-> <<>>, last |-> None, candidates |-> {}, with_tail |-> {},
     response |-> None]

StepDownRequests ==
    { [kind |-> "Hsm", hsm |-> h] : h \in HandoverHsms } \cup { [kind |-> "Group"] }

Leaders == { h \in HandoverHsms : IsLeader(h, SpecGroup) }

\* the sequences that hold each element of S once
Orders(S) ==
    { q \in [1..Cardinality(S) -> S] : \A i, j \in 1..Cardinality(S) :
                                          q[i] = q[j] => i = j }

\* lines 17-20: a StepDownRequest arrives
MgrRequest(req) ==
    /\ coordinator.pc \in {"idle", "done"}
    /\ coordinator' = [ManagerIdle EXCEPT !.pc = "resolve", !.request = Some(req),
                                          !.before = Leaders]
    /\ UNCHANGED <<rpcs, storeVars, hsmVars>>

\* lines 109-175: resolve_stepdowns; a request by HSM id names the HSM if
\* it leads the group, a request by group every HSM whose status shows a
\* leader for the group, in the order of the address map
MgrResolve(targets) ==
    LET c == coordinator
        req == Unwrap(c.request)
    IN /\ c.pc = "resolve"
       /\ targets \in Orders(IF req.kind = "Hsm" THEN Leaders \cap {req.hsm}
                             ELSE Leaders)
       /\ coordinator' =
             IF targets = <<>>
             THEN [c EXCEPT !.pc = "done", !.response = Some("Ok")]
             ELSE [c EXCEPT !.pc = "send", !.targets = targets, !.todo = targets]
       /\ UNCHANGED <<rpcs, storeVars, hsmVars>>

\* lines 46-57: StepDown is sent to the agent of the next target, whose
\* HSM handles it
MgrStepDown ==
    LET c == coordinator
        h == Head(c.todo)
    IN /\ c.pc = "send"
       /\ StepDownHandled(h, SpecGroup)
       /\ coordinator' = [c EXCEPT !.pc = "wait",
                                   !.last = Some(LastEntry(LeaderOf(h, SpecGroup)))]
       /\ UNCHANGED rpcs

\* a manager that asks the HSM that stepped down as well
CandidatesWithHsm(stepdown_hsm) == HandoverHsms

\* stepdown.hsm is skipped (line 102): the members asked to lead
Candidates(stepdown_hsm) == HandoverHsms \ {stepdown_hsm}

\* lines 66-73: the agent answers Ok with the last index once its HSM has
\* stepped down; assign_leader_post_stepdown starts
MgrStepDownOk ==
    LET c == coordinator
        h == Head(c.todo)
    IN /\ c.pc = "wait"
       /\ ~IsLeader(h, SpecGroup)
       /\ coordinator' =
             [c EXCEPT !.pc = "assign",
                       !.candidates = Candidates(h),
                       !.with_tail =
                          { x \in HandoverHsms \ {h} :
                              /\ IsSome(persistent[x].groups[SpecGroup])
                              /\ NamesCaptured(x, SpecGroup, Unwrap(c.last)) }]
       /\ UNCHANGED <<rpcs, storeVars, hsmVars>>

\* the loop of lines 46-76 goes to its next target, or line 77 answers Ok
NextTarget(c) ==
    IF Len(c.todo) > 1
    THEN [c EXCEPT !.pc = "send", !.todo = Tail(c.todo)]
    ELSE [c EXCEPT !.pc = "done", !.todo = <<>>, !.response = Some("Ok")]

\* assign_group_a_leader asks a member to lead from the last index; a
\* member that accepts ends the search, one that refuses is passed over;
\* when the last one has refused, assign_leader_post_stepdown returns
\* Ok(None) and the loop of lines 46-76 goes on all the same (lines 67-73)
MgrBecomeLeader(x) ==
    LET c == coordinator
        handled == BecomeLeaderRequest(x, SpecGroup, Unwrap(c.last))
        ok == handled.response.result = "Ok"
    IN /\ c.pc = "assign"
       /\ x \in c.candidates
       /\ Apply(x, handled)
       /\ appointed' = IF ok /\ ~IsLeader(x, SpecGroup)
                       THEN [appointed EXCEPT ![x][SpecGroup] =
                               Unwrap(persistent[x].groups[SpecGroup]).captured]
                       ELSE appointed
       /\ coordinator' = IF ok \/ c.candidates = {x}
                         THEN NextTarget([c EXCEPT !.candidates = @ \ {x}])
                         ELSE [c EXCEPT !.candidates = @ \ {x}]
       /\ UNCHANGED <<stepping_down, next_nonce, issued_entries, issued_captures,
                      issued_transfers, adopted>>
       /\ UNCHANGED <<rpcs, storeVars>>

InitHandover ==
    /\ persistent = [h \in HsmIds |->
          IF h = 1 THEN SpecRealm.p
          ELSE JoinRealmHandle(HsmNewPersistent, HsmNewVolatile, h, RealmId).p]
    /\ volatile = [h \in HsmIds |->
          IF h = 1 THEN SpecRealm.v ELSE HsmNewVolatile]
    /\ nvram = persistent
    /\ stepping_down = NoneOfGroups
    /\ next_nonce = 1
    /\ issued_entries = {[group |-> SpecGroup, entry |-> SpecRealm.response.entry]}
    /\ issued_captures = {}
    /\ issued_transfers = {}
    /\ appointed = NoneOfGroups
    /\ adopted = {}
    /\ log_rows = {}
    /\ merkle_rows = {}
    /\ remove_tasks = {}
    /\ last_write = [c \in Clients |-> None]
    /\ client_pc = [c \in Clients |-> "idle"]
    /\ client_req = [c \in Clients |-> None]
    /\ client_result = [c \in Clients |-> "none"]
    /\ coordinator = ManagerIdle
    /\ rpcs = <<>>

NextHandover ==
    \/ \E h \in HandoverHsms : JoinGroup(h, SpecGroup, SpecConfiguration)
    \/ \E h \in HandoverHsms, e \in EntriesOf(SpecGroup) : CaptureNext(h, SpecGroup, e)
    \/ \E h \in HandoverHsms, e \in EntriesOf(SpecGroup) :
          \E captures \in SeqsUpTo(CapturesFor(SpecGroup, e.index, e.entry_hmac),
                                   MaxCaptures) :
             Commit(h, SpecGroup, e.index, e.entry_hmac, captures)
    \/ \E h \in HandoverHsms, rid \in SpecRecordIds, request \in PlainRequests,
          index \in 1..MaxHsmIndex, data \in RecordMapsOver(SpecRecordIds) :
             App(h, SpecGroup, rid, request, index, data)
    \/ \E req \in StepDownRequests : MgrRequest(req)
    \/ \E targets \in SeqsUpTo(HandoverHsms, Cardinality(HandoverHsms)) :
          MgrResolve(targets)
    \/ MgrStepDown
    \/ MgrStepDownOk
    \/ \E x \in HandoverHsms : MgrBecomeLeader(x)

SpecHandover == InitHandover /\ [][NextHandover]_vars

\* C27: when the manager has answered Ok to a stepdown request, by HSM id
\* or by group, that it resolved to the one leader h of the group, and a
\* member other than h had captured the entry h stepped down at, the group
\* has exactly one leader, and it is not h.
C27_LeaderHandedOver ==
    (/\ coordinator.pc = "done"
     /\ coordinator.response = Some("Ok")
     /\ Len(coordinator.targets) = 1
     /\ coordinator.before = {coordinator.targets[1]}
     /\ coordinator.with_tail # {})
    => /\ Cardinality(Leaders) = 1
       /\ coordinator.targets[1] \notin Leaders

\* a stepdown requested by group has been answered Ok after the stepdown
\* at index 2 of the leader, one member refused to lead and another leads
C27_Witness ==
    /\ coordinator.pc = "done"
    /\ coordinator.response = Some("Ok")
    /\ Unwrap(coordinator.request).kind = "Group"
    /\ Len(coordinator.targets) = 1
    /\ coordinator.before = {coordinator.targets[1]}
    /\ Unwrap(coordinator.last).index = 2
    /\ Cardinality(coordinator.candidates) = 0
    /\ Cardinality(Leaders) = 1
    /\ coordinator.targets[1] \notin Leaders

(***************************************************************************)
(* SpecMerkle: the store under two clients whose entries change the Merkle *)
(* tree.  Client c1 appends the entries of variant 1, client c2 those of   *)
(* variant 2 (two leaders never create the same entry when the tree        *)
(* changes).  Every entry adds one node, named by its index and hmac, and  *)
(* removes the node that the entry it continues added.                     *)
(***************************************************************************)
MerkleNode(index, hmac) == <<"node", index, hmac>>

MerkleDelta(entry) ==
    StoreDelta({MerkleNode(entry.index, entry.entry_hmac)},
               IF entry.index = FIRST THEN {}
               ELSE {MerkleNode(entry.index - 1, entry.prev_hmac)})

\* the chained batches of a client: entries of its variant, each with the
\* delta of its entry
MerkleBatches(variant) ==
    LET items == { AppendItem(e, Some(MerkleDelta(e))) :
                     e \in { x \in StoreEntries :
                               x.entry_hmac = StoreHmac(x.index, variant) } }
    IN { b \in UNION { [1..n -> items] : n \in 1..MaxBatch } : BatchChainOk(b) }

VariantOf(c) == IF c = "c1" THEN 1 ELSE 2

NextMerkle ==
    \/ \E c \in Clients : \E items \in MerkleBatches(VariantOf(c)) :
          AppendBegin(c, StoreGroup, items)
    \/ \E c \in Clients : AppendReadPrev(c)
    \/ \E c \in Clients : AppendWriteMerkle(c)
    \/ \E c \in Clients : AppendWriteLog(c)
    \/ Tick
    \/ \E t \in remove_tasks : StoreRemove(t)

\* time passes, and a delete task whose sleep is over runs (tokio::spawn)
SpecMerkle ==
    /\ InitStore
    /\ [][NextMerkle]_vars
    /\ WF_vars(Tick)
    /\ WF_vars(\E t \in remove_tasks : StoreRemove(t))

\* the entries readable from the log table
StoredMerkleEntries ==
    UNION { { r.cells[q] : q \in DOMAIN r.cells } : r \in log_rows }

\* the nodes some delete task is to remove
Doomed == UNION { t.keys : t \in remove_tasks }

\* the nodes that entries remove
RemovableNodes == UNION { MerkleDelta(e).remove : e \in StoreEntries }

\* the step is the log write of client c, with this result
LogWriteBy(c, result) ==
    /\ client_pc[c] = "write_log"
    /\ client_pc'[c] = "idle"
    /\ client_result'[c] = result

RowEntries(r) ==
    LET top == CHOOSE q \in DOMAIN r.cells : \A o \in DOMAIN r.cells : q >= o
    IN [k \in 1..Cardinality(DOMAIN r.cells) |-> r.cells[top - (k - 1)]]

\* an iterator that returns the row it found from its first entry
WholeRow(entries, index) == entries

\* the entries at or after index
FromIndex(entries, index) == SelectSeq(entries, LAMBDA e : e.index >= index)

\* Position::LogIndex: the one row that holds index, from index on
read_for_log_index(rows, group, index) ==
    LET hits == { r \in rows :
                    /\ r.key[1] = group
                    /\ r.key[2] >= DownwardLogIndex(index)
                    /\ r.key[2] <= DownwardLogIndex(FIRST) }
    IN IF hits = {} THEN <<>>
       ELSE LET first == CHOOSE r \in hits : \A o \in hits : r.key[2] <= o.key[2]
            IN FromIndex(RowEntries(first), index)

RECURSIVE RowsAscending(_)
\* the entries of a set of rows, lowest index first
RowsAscending(rs) ==
    IF rs = {} THEN <<>>
    ELSE LET low == CHOOSE r \in rs : \A o \in rs : r.key[2] >= o.key[2]
         IN RowEntries(low) \o RowsAscending(rs \ {low})

\* Position::RowBoundary: the rows that start at index or at one of the
\* max_entries - 1 indexes after it
read_for_row_boundary(rows, group, index, max_entries) ==
    RowsAscending({ r \in rows :
                      /\ r.key[1] = group
                      /\ r.key[2] >= DownwardLogIndex(index + max_entries - 1)
                      /\ r.key[2] <= DownwardLogIndex(index) })

\* StoreClient::read_log_entries_iter
IterOpen(starting_at, max_entries) ==
    /\ coordinator = None
    /\ coordinator' = Some([starting_at |-> starting_at,
                            max_entries |-> max_entries,
                            next |-> [kind |-> "LogIndex", index |-> starting_at]])
    /\ UNCHANGED <<rpcs, storeVars, hsmVars>>

\* the calls of next() a behaviour may hold
MaxCalls == MaxLogIndex + 2

\* LogEntriesIter::next
IterNext ==
    /\ IsSome(coordinator)
    /\ Len(rpcs) < MaxCalls
    /\ LET it == Unwrap(coordinator)
           entries ==
               IF it.next.kind = "LogIndex"
               THEN read_for_log_index(log_rows, StoreGroup, it.next.index)
               ELSE read_for_row_boundary(log_rows, StoreGroup, it.next.index,
                                          it.max_entries)
       IN /\ rpcs' = Append(rpcs, entries)
          /\ coordinator' =
                IF entries = <<>> THEN coordinator
                ELSE Some([it EXCEPT !.next =
                             [kind |-> "RowBoundary",
                              index |-> IndexNext(entries[Len(entries)].index)]])
    /\ UNCHANGED <<storeVars, hsmVars>>

\* the last index of the log, 0 for an empty log
TailIndex ==
    LET last == read_last_log_entry(log_rows, StoreGroup)
    IN IF IsSome(last) THEN Unwrap(last).index ELSE 0

\* the chained batches that continue the log at its tail
TailBatches ==
    { b \in StoreBatches :
        /\ BatchChainOk(b)
        /\ b[1].entry.index = IndexNext(TailIndex)
        /\ \A k \in 1..Len(b) :
              /\ b[k].entry.entry_hmac = StoreHmac(b[k].entry.index, 1)
              /\ b[k].entry.index > FIRST =>
                    b[k].entry.prev_hmac = StoreHmac(b[k].entry.index - 1, 1) }

NextIterate ==
    \/ \E c \in Clients : \E items \in TailBatches :
          AppendBegin(c, StoreGroup, items)
    \/ \E c \in Clients : AppendReadPrev(c)
    \/ \E c \in Clients : AppendWriteLog(c)
    \/ \E starting_at \in 1..(MaxLogIndex + 1) : \E max_entries \in 1..MaxLogIndex :
          IterOpen(starting_at, max_entries)
    \/ IterNext

SpecIterate == InitStore /\ [][NextIterate]_vars

RECURSIVE Flatten(_)
\* the vectors of the calls so far, one after the other
Flatten(chunks) ==
    IF chunks = <<>> THEN <<>> ELSE Head(chunks) \o Flatten(Tail(chunks))

\* the entries stored at or after an index
StoredFrom(index) ==
    UNION { CellsAt(log_rows, StoreGroup, i) : i \in index..MaxLogIndex }

\* C30: the calls of an iterator opened at starting_at return, one after
\* the other, the stored entries at starting_at, starting_at + 1, ... up to
\* the iterator's position, each once; the first call returns entries of
\* one row only; a call returns nothing exactly when no entry is stored at
\* or after the position, and then every stored entry at or after
\* starting_at has been returned; an entry appended after such a call is
\* returned by the next one.
C30_IteratorReturnsLog ==
    /\ [](IsSome(coordinator) =>
            LET it == Unwrap(coordinator)
                got == Flatten(rpcs)
            IN /\ \A k \in 1..Len(got) :
                     /\ got[k].index = it.starting_at + (k - 1)
                     /\ CellsAt(log_rows, StoreGroup, got[k].index) = {got[k]}
               /\ got # <<>> => it.next.index = IndexNext(got[Len(got)].index)
               /\ got = <<>> => it.next.index = it.starting_at
               /\ Len(rpcs) >= 1 =>
                     \E r \in log_rows \cup {[key |-> log_key(StoreGroup, 0), cells |-> <<>>]} :
                        \A k \in 1..Len(rpcs[1]) :
                           \E q \in DOMAIN r.cells : r.cells[q] = rpcs[1][k])
    /\ [][Len(rpcs') > Len(rpcs) =>
            LET it == Unwrap(coordinator)
                entries == rpcs'[Len(rpcs')]
            IN /\ (entries = <<>>) <=> (StoredFrom(it.next.index) = {})
               /\ entries = <<>> =>
                     \A e \in StoredFrom(it.starting_at) :
                        \E k \in 1..Len(Flatten(rpcs)) : Flatten(rpcs)[k] = e
               /\ (it.next.kind = "RowBoundary" /\ entries # <<>>) =>
                     entries[1].index = it.next.index]_vars

\* an iterator opened at index 2, inside a row of two entries, has returned
\* the rest of that row, then nothing at the tail, and after an append the
\* new entry
C30_Witness ==
    /\ IsSome(coordinator)
    /\ Unwrap(coordinator).starting_at = 2
    /\ Len(rpcs) = 3
    /\ Len(rpcs[1]) = 1
    /\ rpcs[2] = <<>>
    /\ Len(rpcs[3]) = 1
    /\ \E r \in log_rows : Cardinality(DOMAIN r.cells) = 2

\* the HSMs that have returned a captured statement for the entry
Capturers(group, index, entry_hmac) ==
    { x \in HsmIds :
        CapturedStatementBuild(x, RealmId, group, index, entry_hmac)
           \in issued_captures }

\* C31: a Commit that a leader answers with Ok names an index and an
\* entry_hmac that an entry of the leader's own log has, and every
\* response it releases belongs to an entry that a majority of the
\* configuration has captured.
C31_CommitOnlyOwnEntry ==
    \A h \in Running : \A req \in CommitInputs(SpecGroup) :
        LET handled == CommitRequest(h, SpecGroup, req.index, req.entry_hmac,
                                     req.captures)
            log == LeaderOf(h, SpecGroup).log
        IN handled.response.result = "Ok" =>
              /\ \E k \in 1..Len(log) :
                    /\ log[k].entry.index = req.index
                    /\ log[k].entry.entry_hmac = req.entry_hmac
              /\ \A j \in 1..Len(handled.response.responses) :
                    \E k \in 1..Len(log) :
                       /\ log[k].entry.entry_hmac = handled.response.responses[j][1]
                       /\ HasQuorum(Cardinality(Capturers(SpecGroup, log[k].entry.index,
                                                          log[k].entry.entry_hmac)),
                                    SpecConfiguration)

\* C32: a TransferIn that the leader of the destination answers with Ok
\* has cleared the prepared nonce and appended one entry; a TransferIn it
\* answers with anything else leaves the prepared nonce and the leader's
\* log as they were.
C32_TransferInClearsOnlyOnSuccess ==
    \A d \in Groups : \A x \in TransferInInputs(d) :
       \A data \in RecordMapsOver(SpecRecordIds) :
          LET r == TransferInRequest(TransferHsm, d, x.partition, x.nonce,
                                     x.statement, data)
              before == LeaderOf(TransferHsm, d)
              after == Unwrap(r.v.leader[d])
          IN IsLeader(TransferHsm, d) =>
                IF r.response.result = "Ok"
                THEN /\ after.incoming = None
                     /\ Len(after.log) = Len(before.log) + 1
                     /\ after.log[Len(after.log)].entry = r.response.entry
                ELSE /\ after.incoming = before.incoming
                     /\ after.log = before.log

\* C33: a leader that holds a prepared nonce answers a request to prepare
\* another transfer into its group with OtherTransferPending and keeps
\* the nonce it holds.
C33_OtherTransferPending ==
    \A d \in Groups : \A nonce \in 1..MaxNonce :
        (IsLeader(TransferHsm, d) /\ IsSome(LeaderOf(TransferHsm, d).incoming)) =>
            LET r == TransferNonceRequest(TransferHsm, d, nonce)
            IN /\ r.response.result = "OtherTransferPending"
               /\ Unwrap(r.v.leader[d]).incoming = LeaderOf(TransferHsm, d).incoming

\* the index of the first entry of the log from which on every entry up
\* to the tail carries the transferring_out of the tail
FirstLoggedAt(log) ==
    LET t == log[Len(log)].entry.transferring_out
        k == CHOOSE j \in 1..Len(log) :
                /\ \A i \in j..Len(log) : log[i].entry.transferring_out = t
                /\ j > 1 => log[j - 1].entry.transferring_out # t
    IN log[k].entry.index

\* C34: the leader of the source answers a TransferStatement request with
\* a statement exactly when its tail entry has transferring_out set for
\* the requested destination and its commit index has reached the index at
\* which that transferring_out was first logged; the statement is then for
\* the partition in transfer; otherwise it answers NotTransferring or
\* Busy; in both cases it changes nothing, and a statement reaches the
\* agents only by such an Ok.
C34_StatementOnlyWhenCommitted ==
    /\ [](\A s \in Groups : \A d \in Groups : \A nonce \in 1..MaxNonce :
            IsLeader(TransferHsm, s) =>
               LET r == TransferStatementRequest(TransferHsm, s, d, nonce)
                   leader == LeaderOf(TransferHsm, s)
                   t == LastEntry(leader).transferring_out
                   out == IsSome(t) /\ Unwrap(t).destination = d
               IN /\ r.p = persistent[TransferHsm]
                  /\ r.v = volatile[TransferHsm]
                  /\ IF out /\ CommitIndex(leader) >= FirstLoggedAt(leader.log)
                     THEN r.response =
                            [result |-> "Ok",
                             statement |-> TransferStatementBuild(RealmId,
                                               Unwrap(t).partition, d, nonce)]
                     ELSE r.response =
                            [result |-> IF out THEN "Busy" ELSE "NotTransferring"])
    /\ [][\A x \in issued_transfers' \ issued_transfers :
             /\ IsLeader(TransferHsm, x.source)
             /\ LET leader == LeaderOf(TransferHsm, x.source)
                    t == LastEntry(leader).transferring_out
                IN /\ IsSome(t)
                   /\ Unwrap(t).destination = x.destination
                   /\ Unwrap(t).partition = x.partition
                   /\ CommitIndex(leader) >= FirstLoggedAt(leader.log)]_vars

\* a statement has been issued for a committed transfer, and a leader
\* whose tail is in transfer at an index it has not committed answers Busy
C34_Witness ==
    /\ issued_transfers # {}
    /\ \E s \in Groups : \E d \in Groups :
          /\ IsLeader(TransferHsm, s)
          /\ TransferStatementRequest(TransferHsm, s, d, 1).response.result = "Busy"

\* the records an app request of the claims names: the one the clients of
\* Spec change and one they leave alone
AskedRecordIds == { <<0, 0>>, <<0, 1>> }

\* an entry of the log with an index above `index` changes the record
TouchedAfter(log, index, rid) ==
    \E k \in 1..Len(log) :
        /\ log[k].entry.index > index
        /\ IsSome(log[k].delta)
        /\ Unwrap(log[k].delta)[1] = rid

\* the request names an entry of the leader's log and brings the data of
\* that entry, and the leader owns the record
WellFormed(leader, rid, index, data) ==
    /\ IsSome(LastEntry(leader).partition)
    /\ OwnedPrefixContains(Unwrap(LastEntry(leader).partition).prefix, rid)
    /\ \E k \in 1..Len(leader.log) :
          /\ leader.log[k].entry.index = index
          /\ IsSome(leader.log[k].entry.partition)
          /\ Unwrap(leader.log[k].entry.partition).hash = RecordMapHash(data)

\* app requests as any agent may send them
AppInputs ==
    { [rid |-> rid, request |-> request, index |-> index, data |-> data] :
        rid \in AskedRecordIds, request \in SpecRequests,
        index \in 1..MaxHsmIndex, data \in RecordMapsOver(SpecRecordIds) }

RecordsAsked == { <<0, 0>>, <<1, 1>> }

\* the prefixes a TransferOut of SpecRecords names
RecordsPrefixes == { <<>>, <<0>>, <<1>> }

NextRecords ==
    \/ \E rid \in RecordsAsked, request \in SpecRequests,
          index \in 1..MaxHsmIndex, data \in RecordMapsOver(RecordsAsked) :
             App(TransferHsm, "gA", rid, request, index, data)
    \/ \E e \in EntriesOf("gA") : CaptureNext(TransferHsm, "gA", e)
    \/ \E e \in EntriesOf("gA") :
          Commit(TransferHsm, "gA", e.index, e.entry_hmac, <<>>)
    \/ \E prefix \in RecordsPrefixes, index \in 1..MaxHsmIndex,
          data \in RecordMapsOver(RecordsAsked) :
             TransferOut(TransferHsm, "gA", "gB", prefix, index, data)
    \/ TransferNonce(TransferHsm, "gA")

SpecRecords == InitTransfer /\ [][NextRecords]_vars

\* app requests as any agent of SpecRecords may send them
RecordsInputs ==
    { [rid |-> rid, request |-> request, index |-> index, data |-> data] :
        rid \in RecordsAsked, request \in SpecRequests,
        index \in 1..(MaxHsmIndex + 1), data \in RecordMapsOver(RecordsAsked) }

RECURSIVE Replayed(_, _, _)
\* the data of a request after the changes of the entries above an index
Replayed(data, log, index) ==
    IF log = <<>> THEN data
    ELSE LET e == Head(log)
         IN Replayed(IF e.entry.index > index /\ IsSome(e.delta)
                     THEN ApplyChange(data, Unwrap(e.delta)[1], Unwrap(e.delta)[2])
                     ELSE data,
                     Tail(log), index)

\* the request names an entry of the log that owns a partition, with the
\* data of that partition
MatchesEntry(log, index, data) ==
    \E k \in 1..Len(log) :
        /\ log[k].entry.index = index
        /\ IsSome(log[k].entry.partition)
        /\ Unwrap(log[k].entry.partition).hash = RecordMapHash(data)

\* C36: an app request is accepted only if its data, after the changes of
\* the leader's later entries, is the data of the leader's tail partition;
\* a request for a record the leader owns whose index is outside the log
\* or whose data is not that of the entry at its index is rejected with
\* StaleProof, StaleIndex or InvalidData; a rejected request appends
\* nothing.
C36_AcceptedOnlyIfFresh ==
    \A x \in RecordsInputs :
        IsLeader(TransferHsm, "gA") =>
            LET leader == LeaderOf(TransferHsm, "gA")
                tail == LastEntry(leader)
                r == AppRequest(TransferHsm, "gA", x.rid, x.request, x.index, x.data)
                owned == /\ IsSome(tail.partition)
                         /\ OwnedPrefixContains(Unwrap(tail.partition).prefix, x.rid)
            IN /\ r.response.result = "Ok" =>
                     /\ IsSome(tail.partition)
                     /\ RecordMapHash(Replayed(x.data, leader.log, x.index))
                           = Unwrap(tail.partition).hash
               /\ (owned /\ ~MatchesEntry(leader.log, x.index, x.data)) =>
                     r.response.result \in {"StaleProof", "StaleIndex", "InvalidData"}
               /\ r.response.result # "Ok" => r.v = volatile[TransferHsm]

(***************************************************************************)
(* BecomeLeader on an HSM that does not lead the group (hsm.rs 696-759).   *)
(***************************************************************************)
\* the HSMs and entries for which BecomeLeader would start a leader now
Seeding ==
    { x \in [hsm : Running, last_entry : EntriesOf(SpecGroup)] :
        /\ ~IsSome(volatile[x.hsm].leader[SpecGroup])
        /\ BecomeLeaderRequest(x.hsm, SpecGroup, x.last_entry).response.result = "Ok" }

\* the leader state of the group after the request x is handled
Seeded(x) ==
    Unwrap(BecomeLeaderRequest(x.hsm, SpecGroup, x.last_entry).v.leader[SpecGroup])

\* hsm leads the group in the state st of the HSMs' volatile memory
LeadsIn(st, hsm) == IsSome(st[hsm].leader[SpecGroup])

\* C37 as stated: after BecomeLeader succeeds on an HSM that was not leader
\* of the group, its volatile log is exactly last_entry and the commit index
\* equals last_entry.index.
C37_SeededAsCommittedTail ==
    \A x \in Seeding :
        /\ Seeded(x).log = <<LeaderLogEntry(x.last_entry, None, None)>>
        /\ Seeded(x).committed = Some(x.last_entry.index)

\* C37 amended: after BecomeLeader succeeds on an HSM that was not leader of
\* the group, its volatile log is exactly last_entry, without delta and
\* without response, no incoming transfer is prepared and nothing is
\* committed: the commit index is unset until a Commit succeeds.  Every step
\* in which an HSM starts to lead leaves it in that state, with the entry it
\* has captured as the only one of its log.
C37_SeededUncommitted ==
    /\ [](\A x \in Seeding :
            /\ Seeded(x).log = <<LeaderLogEntry(x.last_entry, None, None)>>
            /\ Seeded(x).committed = None
            /\ Seeded(x).incoming = None
            /\ Seeded(x).committed # Some(x.last_entry.index))
    /\ [][\A h \in Running :
            (~LeadsIn(volatile, h) /\ LeadsIn(volatile', h)) =>
               LET leader == Unwrap(volatile'[h].leader[SpecGroup])
                   captured == Unwrap(Unwrap(persistent[h].groups[SpecGroup]).captured)
               IN /\ Len(leader.log) = 1
                  /\ leader.log[1].entry.index = captured.index
                  /\ leader.log[1].entry.entry_hmac = captured.entry_hmac
                  /\ leader.log[1].delta = None
                  /\ leader.log[1].response = None
                  /\ leader.committed = None
                  /\ leader.incoming = None]_vars

\* HSM 2 has become leader from an entry after the first: its log is that
\* entry alone and nothing is committed
C37_Witness ==
    /\ LeadsIn(volatile, 2)
    /\ IsSome(appointed[2][SpecGroup])
    /\ LET leader == Unwrap(volatile[2].leader[SpecGroup])
       IN /\ Len(leader.log) = 1
          /\ leader.log[1].entry.index > 1
          /\ leader.committed = None

(***************************************************************************)
(* SpecRecur: the store under clients whose entries bring the Merkle tree  *)
(* back to an earlier content.  The nodes are keyed by their hash, so the  *)
(* root of a tree that holds again what it held before is the node it was  *)
(* before: the entries at odd indexes have one root, those at even indexes *)
(* another (a record is registered and deleted in turn).                   *)
(***************************************************************************)
\* the root node of the tree after the entry at index has been applied
RecurRoot(index) == <<"root", index % 2>>

\* merkle/agent.rs 42-50: DeltaBuilder::build drops from the remove set
\* the nodes the same delta adds
DeltaBuild(add, remove) == StoreDelta(add, remove \ add)

\* the delta of the entry at index: the new root replaces the previous one
RecurDelta(index) ==
    DeltaBuild({RecurRoot(index)},
               IF index = FIRST THEN {} ELSE {RecurRoot(index - 1)})

\* the chained batches of the clients, each entry with its delta
RecurBatches ==
    LET items == { AppendItem(e, Some(RecurDelta(e.index))) :
                     e \in { x \in StoreEntries :
                               /\ x.entry_hmac = StoreHmac(x.index, 1)
                               /\ (x.index = FIRST
                                     \/ x.prev_hmac = StoreHmac(x.index - 1, 1)) } }
    IN { b \in UNION { [1..n -> items] : n \in 1..MaxBatch } : BatchChainOk(b) }

NextRecur ==
    \/ \E c \in Clients : \E items \in RecurBatches :
          AppendBegin(c, StoreGroup, items)
    \/ \E c \in Clients : AppendReadPrev(c)
    \/ \E c \in Clients : AppendWriteMerkle(c)
    \/ \E c \in Clients : AppendWriteLog(c)
    \/ Tick
    \/ \E t \in remove_tasks : StoreRemove(t)

SpecRecur == InitStore /\ [][NextRecur]_vars

\* the highest index readable from the log table (0: the log is empty)
NewestIndex ==
    LET stored == { e.index : e \in StoredMerkleEntries }
    IN IF stored = {} THEN 0
       ELSE CHOOSE i \in stored : \A j \in stored : j <= i

\* C38: a deferred deletion never removes a Merkle node that is reachable
\* from the root of the newest stored log entry of the group, also when a
\* later append, or a later item of the same batch, adds again a node that
\* an earlier one put in its remove set: the root of the newest stored
\* entry is in the Merkle table.
C38_NewestRootStays ==
    NewestIndex > 0 => RecurRoot(NewestIndex) \in merkle_rows

(***************************************************************************)
(* TransferOut with a split (hsm.rs 946-986).                              *)
(***************************************************************************)
\* every prefix of a record id of the model
AllPrefixes == { SubSeq(rid, 1, n) : rid \in RecordIds, n \in 0..2 }

\* TransferOut requests as any coordinator may send them
SplitInputs ==
    { [prefix |-> prefix, index |-> index, data |-> data] :
        prefix \in AllPrefixes, index \in 1..MaxHsmIndex,
        data \in RecordMapsOver(RecordsAsked) }

\* the request splits the partition of gA: it succeeds and gA keeps a part
Splits(x) ==
    LET r == TransferOutRequest(TransferHsm, "gA", "gB", x.prefix, x.index, x.data)
    IN /\ r.response.result = "Ok"
       /\ IsSome(r.response.entry.partition)

\* C39: when TransferOut succeeds with a split, the range the source keeps
\* and the range it transfers are disjoint and their union is exactly the
\* range the source owned before; every record of the former partition
\* lies in exactly one of the two resulting partitions, the one whose range
\* holds its id, and the two roots are the hashes of the two parts.
C39_SplitCoversOnce ==
    \A x \in { y \in SplitInputs : Splits(y) } :
        LET r == TransferOutRequest(TransferHsm, "gA", "gB",
                                    x.prefix, x.index, x.data).response
            owned == Unwrap(LastEntry(Unwrap(volatile[TransferHsm].leader["gA"]))
                              .partition).prefix
            keep == Unwrap(r.entry.partition)
            give == Unwrap(r.entry.transferring_out).partition
            keeping == Unwrap(r.keeping)
        IN /\ \A rid \in RecordIds :
                /\ OwnedPrefixContains(owned, rid) <=>
                      (OwnedPrefixContains(keep.prefix, rid)
                         \/ OwnedPrefixContains(give.prefix, rid))
                /\ ~(OwnedPrefixContains(keep.prefix, rid)
                       /\ OwnedPrefixContains(give.prefix, rid))
           /\ keeping \cap r.transferring = {}
           /\ keeping \cup r.transferring = x.data
           /\ \A rec \in x.data :
                OwnedPrefixContains(owned, rec[1]) =>
                   /\ rec \in keeping <=> OwnedPrefixContains(keep.prefix, rec[1])
                   /\ rec \in r.transferring <=>
                         OwnedPrefixContains(give.prefix, rec[1])
           /\ keep.hash = RecordMapHash(keeping)
           /\ give.hash = RecordMapHash(r.transferring)

\* gA registered a record and then split: the tail of its leader's log is
\* the entry of the split, with the record in one of the two partitions
C39_Witness ==
    /\ IsSome(volatile[TransferHsm].leader["gA"])
    /\ LET log == Unwrap(volatile[TransferHsm].leader["gA"]).log
           tail == log[Len(log)].entry
       IN /\ Len(log) = 3
          /\ IsSome(log[2].delta)
          /\ IsSome(tail.partition)
          /\ IsSome(tail.transferring_out)
          /\ Unwrap(tail.partition).prefix # Unwrap(log[2].entry.partition).prefix
          /\ Unwrap(tail.partition).hash # Unwrap(tail.transferring_out).partition.hash

(***************************************************************************)
(* What an app request leaves alone (hsm.rs 1284-1432).                    *)
(***************************************************************************)
\* the leader state of gA in the state st of the HSMs' volatile memory
LeaderOfA(st) == Unwrap(st[TransferHsm].leader["gA"])

\* C40: a log entry appended for an app request never changes ownership:
\* it has the prefix and the transferring_out of the leader's previous
\* tail entry, and it is the only change to the leader's state; an app
\* request that is rejected (NotLeader, NotOwner, StaleIndex, InvalidData,
\* Busy) leaves the leader's log, commit index and prepared nonce, and the
\* rest of the HSM's state, unchanged.
C40_AppKeepsOwnership ==
    /\ [](\A x \in RecordsInputs :
            LET r == AppRequest(TransferHsm, "gA", x.rid, x.request, x.index, x.data)
            IN IF r.response.result = "Ok"
               THEN LET before == LeaderOfA(volatile)
                        after == Unwrap(r.v.leader["gA"])
                        tail == LastEntry(before)
                        new == r.response.entry
                    IN /\ Unwrap(new.partition).prefix = Unwrap(tail.partition).prefix
                       /\ new.transferring_out = tail.transferring_out
                       /\ new.index = tail.index + 1
                       /\ Len(after.log) = Len(before.log) + 1
                       /\ SubSeq(after.log, 1, Len(before.log)) = before.log
                       /\ after.log[Len(after.log)].entry = new
                       /\ after.committed = before.committed
                       /\ after.incoming = before.incoming
                       /\ r.p = persistent[TransferHsm]
               ELSE /\ r.response.result \in
                          {"NotLeader", "NotOwner", "StaleIndex", "InvalidData", "Busy"}
                    /\ r.v = volatile[TransferHsm]
                    /\ r.p = persistent[TransferHsm])
    /\ [][\A k \in 1..(MaxHsmIndex + 1) :
            LET before == LeaderOfA(volatile).log
                after == LeaderOfA(volatile').log
            IN (/\ k = Len(before) /\ Len(after) = k + 1
                /\ IsSome(after[k + 1].response)) =>
                  /\ after[k + 1].entry.partition # None
                  /\ before[k].entry.partition # None
                  /\ Unwrap(after[k + 1].entry.partition).prefix
                        = Unwrap(before[k].entry.partition).prefix
                  /\ after[k + 1].entry.transferring_out
                        = before[k].entry.transferring_out]_vars

\* gA has split and prepared a nonce, and its leader has then appended an
\* entry for an app request: the entry has the prefix and the
\* transferring_out of the split
C40_Witness ==
    LET leader == LeaderOfA(volatile)
    IN /\ Len(leader.log) = 3
       /\ IsSome(leader.log[2].entry.transferring_out)
       /\ IsSome(leader.log[2].entry.partition)
       /\ leader.log[2].response = None
       /\ IsSome(leader.log[3].response)
       /\ leader.log[3].entry.transferring_out = leader.log[2].entry.transferring_out
       /\ Unwrap(leader.log[3].entry.partition).prefix
             = Unwrap(leader.log[2].entry.partition).prefix
       /\ IsSome(leader.incoming)

=============================================================================
